---- MODULE Spec2Model ----
(***************************************************************************)
(* The Lattice Python SDK (lattice_sdk): the transport LatticeClient.      *)
(* _request, health_check and the five operation groups, as a state        *)
(* machine.  A call is two or three steps: the method issues its HTTP      *)
(* request, the network answers (a fault or a response), and the method    *)
(* maps the envelope to its result; Documents.read_by_id with              *)
(* include_content issues a second request in between.                     *)
(*                                                                         *)
(* Spec        the client against an arbitrary HTTP endpoint: every fault, *)
(*             status code and body shape.                                 *)
(* SpecLattice the client against the Lattice server of spec.md (its       *)
(*             store of collections and documents), with other clients     *)
(*             acting on the same store between the client's requests.     *)
(* SpecCodec   models.py on its own: an object a caller built is encoded   *)
(*             and decoded again, a wire object or value is decoded.       *)
(***************************************************************************)
EXTENDS Integers, Sequences, FiniteSets, TLC

\* Bounds: how many ids of each kind the server can hand out.
MaxCollections == 2
MaxDocuments == 2

(***************************************************************************)
(* Values.  Every Python value the model handles is a record of one shape, *)
(* so that any two of them can be compared.                                *)
(***************************************************************************)

\* Identifiers are opaque strings with a prefix; n numbers them.
NoId == [prefix |-> "", n |-> 0]
ColIds == {[prefix |-> "col_", n |-> i] : i \in 1..MaxCollections}
DocIds == {[prefix |-> "doc_", n |-> i] : i \in 1..MaxDocuments}
SchemaId == [prefix |-> "sch_", n |-> 1]

\* HTTP status codes a response may carry: 200, another 2xx, the first
\* code that is not < 400, and 404.
StatusCodes == {200, 204, 400, 404}

\* Python's None/True/False as the value of ResponseContext.success.
PyTruth == {"True", "False", "None"}

\* A JSON payload (the envelope's data, or an element the decoders read).
\*   null      JSON null or a missing key
\*   emptyobj  {}                      emptylist  []
\*   obj       a non-empty JSON object; id its "id", content its "content",
\*             n the length of the list nested in it (fieldConstraints,
\*             indexedFields, documents)
\*   list      a non-empty list of n JSON objects
\*   badlist   a non-empty list holding a string
\*   text      a non-empty string      number     a non-zero number
NullData == [kind |-> "null", id |-> NoId, content |-> "None", n |-> 0]
ObjData(id, content, n) == [kind |-> "obj", id |-> id, content |-> content, n |-> n]
ListData(n) == [kind |-> "list", id |-> NoId, content |-> "None", n |-> n]
PlainData(kind) == [kind |-> kind, id |-> NoId, content |-> "None", n |-> 0]

\* A JSON object is a function from its keys to their values.
NoKeys == [key \in {} |-> 0]
Put(d, key, value) ==
    [x \in DOMAIN d \cup {key} |-> IF x = key THEN value ELSE d[x]]
PutIf(cond, d, key, value) == IF cond THEN Put(d, key, value) ELSE d

\* dict.get(key, default)
Get(data, key, default) == IF key \in DOMAIN data THEN data[key] ELSE default

\* Python truthiness of a payload: None, {}, [] are falsy.
DataTruthy(d) == d.kind \notin {"null", "emptyobj", "emptylist"}

\* A response body.  kind:
\*   empty      no bytes               nonjson    bytes that are not JSON
\*   null       the JSON value null    nonobject  JSON list, string or number
\*   object     a JSON object, with its success / statusCode / data keys
\*              (success "missing" and code -1 when the key is absent)
EmptyBody == [kind |-> "empty", success |-> "missing", code |-> -1, data |-> NullData]
PlainBody(kind) == [kind |-> kind, success |-> "missing", code |-> -1, data |-> NullData]
ObjectBody(success, code, data) ==
    [kind |-> "object", success |-> success, code |-> code, data |-> data]

\* What the network gives back for one request: a fault (the requests
\* library raises) or a response.
\*   refused  requests.ConnectionError    timeout  requests.Timeout
\*   other    another requests.RequestException (e.g. TooManyRedirects)
Faults == {"refused", "timeout", "other"}
NoResp == [fault |-> "unsent", status |-> 0, body |-> EmptyBody]
FaultResp(f) == [fault |-> f, status |-> 0, body |-> EmptyBody]
HttpResp(status, body) == [fault |-> "none", status |-> status, body |-> body]

\* The requests exception a fault raises.
RawException(f) ==
    CASE f = "refused" -> "requests.ConnectionError"
      [] f = "timeout" -> "requests.Timeout"
      [] OTHER -> "requests.RequestException"

(***************************************************************************)
(* models.py: ResponseContext                                              *)
(***************************************************************************)

\* A ResponseContext; isNone is the Python None that from_dict(None) returns.
NoEnvelope == [isNone |-> TRUE, success |-> "None", status_code |-> 0, data |-> NullData]
ResponseContext(success, status_code, data) ==
    [isNone |-> FALSE, success |-> success, status_code |-> status_code, data |-> data]

\* Python's bool as the value of success.
PyBoolStr(b) == IF b THEN "True" ELSE "False"

\* success defaulting to True when the body has no success key.
ResponseContext_from_dict_SuccessByDefault(body) ==
    ResponseContext(
        IF body.success = "missing" THEN "True" ELSE body.success,
        IF body.code = -1 THEN 0 ELSE body.code,
        body.data)

\* ResponseContext.from_dict on a parsed JSON object: data.get with defaults.
ResponseContext_from_dict(body) ==
    ResponseContext(
        IF body.success = "missing" THEN "False" ELSE body.success,
        IF body.code = -1 THEN 0 ELSE body.code,
        body.data)

(***************************************************************************)
(* client.py: LatticeClient._request                                       *)
(***************************************************************************)

\* The outcome of a Python call: it returns or it raises.  exc is the
\* exception class, cause the requests exception it wraps.
Returned(env) == [raised |-> FALSE, exc |-> "", cause |-> "", env |-> env]
Raised(exc, cause) == [raised |-> TRUE, exc |-> exc, cause |-> cause, env |-> NoEnvelope]

\* HEAD treated like the other methods: any status below 400 is a success.
HeadSuccess_Below400(status) == status < 400

\* success of a HEAD probe.
HeadSuccess(status) == status = 200

\* The boundary off by one: 400 counted as a success.
StatusSuccess_UpTo400(status) == status <= 400

\* success of a response whose body is empty or not JSON.
StatusSuccess(status) == status < 400

\* _request(method, ...) given what the network answered.
_request(method, resp) ==
    CASE resp.fault = "refused" ->
            Raised("LatticeConnectionError", RawException("refused"))
      [] resp.fault = "timeout" ->
            Raised("LatticeConnectionError", RawException("timeout"))
      [] resp.fault = "other" ->
            Raised("LatticeException", "")
      [] OTHER ->
            IF method = "HEAD"
            THEN Returned(ResponseContext(PyBoolStr(HeadSuccess(resp.status)),
                                          resp.status, NullData))
            ELSE IF resp.body.kind /= "empty"
            THEN CASE resp.body.kind = "object" ->
                        Returned(ResponseContext_from_dict(resp.body))
                   [] resp.body.kind = "null" ->
                        Returned(NoEnvelope)
                   [] resp.body.kind = "nonobject" ->
                        Raised("AttributeError", "")
                   [] OTHER ->
                        Returned(ResponseContext(PyBoolStr(StatusSuccess(resp.status)),
                                                 resp.status, PlainData("text")))
            ELSE Returned(ResponseContext(PyBoolStr(StatusSuccess(resp.status)),
                                          resp.status, NullData))

(***************************************************************************)
(* models.py: the decoded entities, and Python values in general           *)
(***************************************************************************)

\* A Python value a method returns.  type is None, bool, list or an entity
\* class; of is a list's element class, n its length (for a SearchResult,
\* the length of documents).
PyNone == [type |-> "None", of |-> "", b |-> "", id |-> NoId, content |-> "None", n |-> 0]
PyBool(b) == [type |-> "bool", of |-> "", b |-> b, id |-> NoId, content |-> "None", n |-> 0]
PyList(of, n) == [type |-> "list", of |-> of, b |-> "", id |-> NoId, content |-> "None", n |-> n]

\* The value of ResponseContext.success handed back as it is.
PyOfTruth(t) == IF t = "None" THEN PyNone ELSE PyBool(t)

\* SearchResult.from_dict leaving end_of_results at the dataclass default.
Entity_from_dict_EndOfResultsUnread(entity, d) ==
    LET x == [type |-> entity, of |-> "", b |-> "",
              id |-> IF entity \in {"Collection", "Document", "Schema"} THEN d.id
                     ELSE NoId,
              content |-> IF entity = "Document" THEN d.content ELSE "None",
              n |-> IF entity = "SearchResult" THEN d.n ELSE 0]
    IN  CASE entity = "Document" ->
                Put(x, "schema_id", Get(d, "schemaId", NoId))
          [] entity = "SearchResult" ->
                Put(Put(x, "end_of_results", "False"),
                    "total_records", Get(d, "totalRecords", 0))
          [] OTHER -> x

\* Document.from_dict reading schema_id from the "id" key.
Entity_from_dict_SchemaIdFromId(entity, d) ==
    LET x == [type |-> entity, of |-> "", b |-> "",
              id |-> IF entity \in {"Collection", "Document", "Schema"} THEN d.id
                     ELSE NoId,
              content |-> IF entity = "Document" THEN d.content ELSE "None",
              n |-> IF entity = "SearchResult" THEN d.n ELSE 0]
    IN  CASE entity = "Document" ->
                Put(x, "schema_id", Get(d, "id", NoId))
          [] entity = "SearchResult" ->
                Put(Put(x, "end_of_results", Get(d, "endOfResults", "False")),
                    "total_records", Get(d, "totalRecords", 0))
          [] OTHER -> x

\* X.from_dict(d) for a JSON object d: every key is read with data.get.
\* A Document keeps "content" and "schemaId"; a SearchResult decodes its
\* "documents" and keeps "endOfResults" and "totalRecords".
Entity_from_dict(entity, d) ==
    LET x == [type |-> entity, of |-> "", b |-> "",
              id |-> IF entity \in {"Collection", "Document", "Schema"} THEN d.id
                     ELSE NoId,
              content |-> IF entity = "Document" THEN d.content ELSE "None",
              n |-> IF entity = "SearchResult" THEN d.n ELSE 0]
    IN  CASE entity = "Document" ->
                Put(x, "schema_id", Get(d, "schemaId", NoId))
          [] entity = "SearchResult" ->
                Put(Put(x, "end_of_results", Get(d, "endOfResults", "False")),
                    "total_records", Get(d, "totalRecords", 0))
          [] OTHER -> x

\* Document.content after the content request of read_by_id was answered:
\* only a 200 is merged; json() of the body, or its text when json() raises
\* JSONDecodeError (an empty body has the text "").
MergedContent(old, resp) ==
    IF resp.status = 200
    THEN CASE resp.body.kind = "null" -> "None"
           [] resp.body.kind \in {"empty", "nonjson"} -> "text"
           [] OTHER -> "json"
    ELSE old

(***************************************************************************)
(* models.py: Python and JSON values, the encoders and the decoders        *)
(***************************************************************************)

\* A Python value, which is also a JSON value once on the wire.  t is its
\* type, v its content as a sequence of strings (the pieces of a str, the
\* items of a list of str, the digits of a number, True/False, the member of
\* an enum) and k the only key of a dict (v its str value) or the element
\* type of a list whose elements are not str.
Val(t, k, v) == [t |-> t, k |-> k, v |-> v]
VNone == Val("None", "", <<>>)
VStr(s) == Val("str", "", s)
VBool(b) == Val("bool", "", <<IF b THEN "True" ELSE "False">>)
VNum(d) == Val("number", "", <<d>>)
VList(items) == Val("list", "", items)
VDict(k, s) == Val("dict", k, s)
VListOf(of, items) == IF items = <<>> THEN VList(<<>>) ELSE Val("list", of, items)
VEnum(class, member) == Val(class, "", <<member>>)
VRaise(exc) == Val("raise", exc, <<>>)


\* bool(x): None, "", 0, False, [] and {} are falsy.
Truthy(x) ==
    CASE x.t = "None" -> FALSE
      [] x.t = "str" -> Len(x.v) > 0
      [] x.t = "bool" -> x.v[1] = "True"
      [] x.t = "number" -> x.v[1] /= "0"
      [] x.t = "list" -> Len(x.v) > 0
      [] x.t = "dict" -> x.k /= ""
      [] OTHER -> TRUE

\* Letters, for str.lower().
LowerLetters ==
    <<"a", "b", "c", "d", "e", "f", "g", "h", "i", "j", "k", "l", "m",
      "n", "o", "p", "q", "r", "s", "t", "u", "v", "w", "x", "y", "z">>
UpperLetters ==
    <<"A", "B", "C", "D", "E", "F", "G", "H", "I", "J", "K", "L", "M",
      "N", "O", "P", "Q", "R", "S", "T", "U", "V", "W", "X", "Y", "Z">>

\* str.lower() forgotten: the string compared as it came.
lower_AsIs(s) == s

\* str.lower(): every upper-case letter replaced by its lower-case letter.
lower(s) ==
    [i \in 1..Len(s) |->
        IF \E j \in 1..Len(UpperLetters) : UpperLetters[j] = s[i]
        THEN LowerLetters[CHOOSE j \in 1..Len(UpperLetters) : UpperLetters[j] = s[i]]
        ELSE s[i]]

\* str.rstrip(ch): every trailing ch removed.
RECURSIVE rstrip(_, _)
rstrip(s, ch) ==
    IF Len(s) > 0 /\ s[Len(s)] = ch THEN rstrip(SubSeq(s, 1, Len(s) - 1), ch) ELSE s

\* The pieces timestamps are made of: a date and time to the second, a
\* fraction of a second, the Z suffix, and text that is not a timestamp.
IsoSeconds == "2024-01-15T10:30:00"
IsoFraction == ".123"

\* datetime.fromisoformat accepts s (and raises ValueError otherwise).
IsIsoFormat(s) == s = <<IsoSeconds>> \/ s = <<IsoSeconds, IsoFraction>>

\* _parse_datetime(value)
_parse_datetime(value) ==
    CASE value.t = "None" -> VNone
      [] value.t = "datetime" -> value
      [] value.t = "str" ->
            IF IsIsoFormat(rstrip(value.v, "Z")) THEN Val("datetime", "", rstrip(value.v, "Z"))
            ELSE VNone
      [] OTHER -> VNone

SchemaEnforcementMode(member) == VEnum("SchemaEnforcementMode", member)
IndexingMode(member) == VEnum("IndexingMode", member)

\* _parse_schema_enforcement_mode(value)
_parse_schema_enforcement_mode(value) ==
    CASE value.t = "None" -> SchemaEnforcementMode("None")
      [] value.t = "SchemaEnforcementMode" -> value
      [] value.t = "str" ->
            LET value_lower == lower(value.v) IN
            CASE value_lower = <<"n", "o", "n", "e">> -> SchemaEnforcementMode("None")
              [] value_lower = <<"s", "t", "r", "i", "c", "t">> ->
                    SchemaEnforcementMode("Strict")
              [] value_lower = <<"f", "l", "e", "x", "i", "b", "l", "e">> ->
                    SchemaEnforcementMode("Flexible")
              [] value_lower = <<"p", "a", "r", "t", "i", "a", "l">> ->
                    SchemaEnforcementMode("Partial")
              [] OTHER -> SchemaEnforcementMode("None")
      [] OTHER -> SchemaEnforcementMode("None")

\* _parse_indexing_mode(value)
_parse_indexing_mode(value) ==
    CASE value.t = "None" -> IndexingMode("All")
      [] value.t = "IndexingMode" -> value
      [] value.t = "str" ->
            LET value_lower == lower(value.v) IN
            CASE value_lower = <<"a", "l", "l">> -> IndexingMode("All")
              [] value_lower = <<"s", "e", "l", "e", "c", "t", "i", "v", "e">> ->
                    IndexingMode("Selective")
              [] value_lower = <<"n", "o", "n", "e">> -> IndexingMode("None")
              [] OTHER -> IndexingMode("All")
      [] OTHER -> IndexingMode("All")

\* One field of an entity: the attribute, its wire key, the default the
\* dataclass declares, the default from_dict passes to data.get (None when it
\* passes none), and how from_dict converts what it gets:
\*   get        data.get(key, default)
\*   or         data.get(key, default) or default
\*   datetime   _parse_datetime(data.get(key))
\*   sem, im    the enum parsers on data.get(key, default)
\*   timestamp  SearchResult.timestamp     documents  SearchResult.documents
Field(attr, key, dflt, get, conv) ==
    [attr |-> attr, key |-> key, dflt |-> dflt, get |-> get, conv |-> conv]
CreatedUtc == Field("created_utc", "createdUtc", VNone, VNone, "datetime")
LastUpdateUtc == Field("last_update_utc", "lastUpdateUtc", VNone, VNone, "datetime")

CollectionFields ==
    << Field("id", "id", VStr(<<>>), VStr(<<>>), "get"),
       Field("name", "name", VStr(<<>>), VStr(<<>>), "get"),
       Field("description", "description", VNone, VNone, "get"),
       Field("documents_directory", "documentsDirectory", VNone, VNone, "get"),
       Field("labels", "labels", VList(<<>>), VList(<<>>), "or"),
       Field("tags", "tags", VDict("", <<>>), VDict("", <<>>), "or"),
       CreatedUtc,
       LastUpdateUtc,
       Field("schema_enforcement_mode", "schemaEnforcementMode",
             SchemaEnforcementMode("None"), VStr(<<"N", "o", "n", "e">>), "sem"),
       Field("indexing_mode", "indexingMode",
             IndexingMode("All"), VStr(<<"A", "l", "l">>), "im") >>

DocumentFields ==
    << Field("id", "id", VStr(<<>>), VStr(<<>>), "get"),
       Field("collection_id", "collectionId", VStr(<<>>), VStr(<<>>), "get"),
       Field("schema_id", "schemaId", VStr(<<>>), VStr(<<>>), "get"),
       Field("name", "name", VNone, VNone, "get"),
       Field("labels", "labels", VList(<<>>), VList(<<>>), "or"),
       Field("tags", "tags", VDict("", <<>>), VDict("", <<>>), "or"),
       CreatedUtc,
       LastUpdateUtc,
       Field("content", "content", VNone, VNone, "get"),
       Field("content_length", "contentLength", VNum("0"), VNum("0"), "get"),
       Field("sha256_hash", "sha256Hash", VNone, VNone, "get") >>

SchemaFields ==
    << Field("id", "id", VStr(<<>>), VStr(<<>>), "get"),
       Field("name", "name", VNone, VNone, "get"),
       Field("hash", "hash", VNone, VNone, "get"),
       CreatedUtc,
       LastUpdateUtc >>

SchemaElementFields ==
    << Field("id", "id", VStr(<<>>), VStr(<<>>), "get"),
       Field("schema_id", "schemaId", VStr(<<>>), VStr(<<>>), "get"),
       Field("position", "position", VNum("0"), VNum("0"), "get"),
       Field("key", "key", VStr(<<>>), VStr(<<>>), "get"),
       Field("data_type", "dataType", VStr(<<>>), VStr(<<>>), "get"),
       Field("nullable", "nullable", VBool(FALSE), VBool(FALSE), "get"),
       CreatedUtc,
       LastUpdateUtc >>

FieldConstraintFields ==
    << Field("id", "id", VStr(<<>>), VStr(<<>>), "get"),
       Field("collection_id", "collectionId", VStr(<<>>), VStr(<<>>), "get"),
       Field("field_path", "fieldPath", VStr(<<>>), VStr(<<>>), "get"),
       Field("data_type", "dataType", VNone, VNone, "get"),
       Field("required", "required", VBool(FALSE), VBool(FALSE), "get"),
       Field("nullable", "nullable", VBool(TRUE), VBool(TRUE), "get"),
       Field("regex_pattern", "regexPattern", VNone, VNone, "get"),
       Field("min_value", "minValue", VNone, VNone, "get"),
       Field("max_value", "maxValue", VNone, VNone, "get"),
       Field("min_length", "minLength", VNone, VNone, "get"),
       Field("max_length", "maxLength", VNone, VNone, "get"),
       Field("allowed_values", "allowedValues", VNone, VNone, "get"),
       Field("array_element_type", "arrayElementType", VNone, VNone, "get"),
       CreatedUtc,
       LastUpdateUtc >>

IndexedFieldFields ==
    << Field("id", "id", VStr(<<>>), VStr(<<>>), "get"),
       Field("collection_id", "collectionId", VStr(<<>>), VStr(<<>>), "get"),
       Field("field_path", "fieldPath", VStr(<<>>), VStr(<<>>), "get"),
       CreatedUtc,
       LastUpdateUtc >>

SearchResultFields ==
    << Field("success", "success", VBool(FALSE), VBool(FALSE), "get"),
       Field("timestamp", "timestamp", VNone, VNone, "timestamp"),
       Field("max_results", "maxResults", VNone, VNone, "get"),
       Field("continuation_token", "continuationToken", VNone, VNone, "get"),
       Field("end_of_results", "endOfResults", VBool(FALSE), VBool(FALSE), "get"),
       Field("total_records", "totalRecords", VNum("0"), VNum("0"), "get"),
       Field("records_remaining", "recordsRemaining", VNum("0"), VNum("0"), "get"),
       Field("documents", "documents", VList(<<>>), VList(<<>>), "documents") >>

IndexRebuildResultFields ==
    << Field("collection_id", "collectionId", VStr(<<>>), VStr(<<>>), "get"),
       Field("documents_processed", "documentsProcessed", VNum("0"), VNum("0"), "get"),
       Field("indexes_created", "indexesCreated", VList(<<>>), VList(<<>>), "or"),
       Field("indexes_dropped", "indexesDropped", VList(<<>>), VList(<<>>), "or"),
       Field("values_inserted", "valuesInserted", VNum("0"), VNum("0"), "get"),
       Field("duration", "duration", VNone, VNone, "get"),
       Field("duration_ms", "durationMs", VNum("0"), VNum("0"), "get"),
       Field("errors", "errors", VList(<<>>), VList(<<>>), "or"),
       Field("success", "success", VBool(FALSE), VBool(FALSE), "get") >>

ResponseContextFields ==
    << Field("success", "success", VBool(FALSE), VBool(FALSE), "get"),
       Field("status_code", "statusCode", VNum("0"), VNum("0"), "get"),
       Field("error_message", "errorMessage", VNone, VNone, "get"),
       Field("data", "data", VNone, VNone, "get"),
       Field("headers", "headers", VDict("", <<>>), VDict("", <<>>), "or"),
       Field("processing_time_ms", "processingTimeMs", VNum("0"), VNum("0"), "get"),
       Field("guid", "guid", VNone, VNone, "get"),
       Field("timestamp_utc", "timestampUtc", VNone, VNone, "datetime") >>

IndexTableMappingFields ==
    << Field("key", "key", VStr(<<>>), VStr(<<>>), "get"),
       Field("table_name", "tableName", VStr(<<>>), VStr(<<>>), "get") >>

\* The classes that have a from_dict.
Entities ==
    {"Collection", "Document", "Schema", "SchemaElement", "FieldConstraint",
     "IndexedField", "SearchResult", "IndexRebuildResult", "ResponseContext",
     "IndexTableMapping"}

Fields(entity) ==
    CASE entity = "Collection" -> CollectionFields
      [] entity = "Document" -> DocumentFields
      [] entity = "Schema" -> SchemaFields
      [] entity = "SchemaElement" -> SchemaElementFields
      [] entity = "FieldConstraint" -> FieldConstraintFields
      [] entity = "IndexedField" -> IndexedFieldFields
      [] entity = "SearchResult" -> SearchResultFields
      [] entity = "IndexRebuildResult" -> IndexRebuildResultFields
      [] entity = "ResponseContext" -> ResponseContextFields
      [] OTHER -> IndexTableMappingFields

FieldSet(entity) == {Fields(entity)[i] : i \in 1..Len(Fields(entity))}

\* `[Document.from_dict(d) for d in data["documents"]]`: a list of JSON
\* objects decodes; a str element, a key of a dict and a character of a str
\* have no .get; a number is not iterable.
DecodeDocuments(x) ==
    CASE ~Truthy(x) -> VList(<<>>)
      [] x.t = "list" /\ x.k = "dict" -> VListOf("Document", x.v)
      [] x.t \in {"number", "bool"} -> VRaise("TypeError")
      [] OTHER -> VRaise("AttributeError")

\* SearchResult.timestamp: the "utc" key of an object, or the value itself.
DecodeTimestamp(ts) ==
    CASE ~Truthy(ts) -> VNone
      [] ts.t = "dict" -> _parse_datetime(IF ts.k = "utc" THEN VStr(ts.v) ELSE VNone)
      [] OTHER -> _parse_datetime(ts)

\* Every default dropped: a plain data.get(key).
DecodeField_NoDefault(f, data) == Get(data, f.key, VNone)

\* One keyword argument of `cls(...)` in from_dict.
DecodeField(f, data) ==
    CASE f.conv = "get" -> Get(data, f.key, f.get)
      [] f.conv = "or" ->
            IF Truthy(Get(data, f.key, f.get)) THEN Get(data, f.key, f.get) ELSE f.get
      [] f.conv = "datetime" -> _parse_datetime(Get(data, f.key, VNone))
      [] f.conv = "sem" -> _parse_schema_enforcement_mode(Get(data, f.key, f.get))
      [] f.conv = "im" -> _parse_indexing_mode(Get(data, f.key, f.get))
      [] f.conv = "timestamp" -> DecodeTimestamp(Get(data, f.key, VNone))
      [] OTHER -> DecodeDocuments(Get(data, f.key, VNone))

\* X.from_dict(data) for a JSON object or None.
from_dict(entity, data) ==
    LET fields == Fields(entity) IN
    IF data = VNone THEN VNone
    ELSE [attr \in {fields[i].attr : i \in 1..Len(fields)} |->
            DecodeField(fields[CHOOSE i \in 1..Len(fields) : fields[i].attr = attr],
                        data)]

\* nullable emitted like required: only when it is set.
FieldConstraint_to_dict_NullableWhenTrue(self) ==
    LET r1 == Put(NoKeys, "fieldPath", self.field_path)
        r2 == PutIf(Truthy(self.data_type), r1, "dataType", self.data_type)
        r3 == PutIf(Truthy(self.required), r2, "required", self.required)
        r4 == PutIf(Truthy(self.nullable), r3, "nullable", self.nullable)
        r5 == PutIf(Truthy(self.regex_pattern), r4, "regexPattern", self.regex_pattern)
        r6 == PutIf(self.min_value.t /= "None", r5, "minValue", self.min_value)
        r7 == PutIf(self.max_value.t /= "None", r6, "maxValue", self.max_value)
        r8 == PutIf(self.min_length.t /= "None", r7, "minLength", self.min_length)
        r9 == PutIf(self.max_length.t /= "None", r8, "maxLength", self.max_length)
        r10 == PutIf(Truthy(self.allowed_values), r9, "allowedValues",
                     self.allowed_values)
    IN  PutIf(Truthy(self.array_element_type), r10, "arrayElementType",
              self.array_element_type)

\* maxLength tested by truthiness: `if self.max_length:`.
FieldConstraint_to_dict_MaxLengthIfTruthy(self) ==
    LET r1 == Put(NoKeys, "fieldPath", self.field_path)
        r2 == PutIf(Truthy(self.data_type), r1, "dataType", self.data_type)
        r3 == PutIf(Truthy(self.required), r2, "required", self.required)
        r4 == PutIf(~Truthy(self.nullable), r3, "nullable", self.nullable)
        r5 == PutIf(Truthy(self.regex_pattern), r4, "regexPattern", self.regex_pattern)
        r6 == PutIf(self.min_value.t /= "None", r5, "minValue", self.min_value)
        r7 == PutIf(self.max_value.t /= "None", r6, "maxValue", self.max_value)
        r8 == PutIf(self.min_length.t /= "None", r7, "minLength", self.min_length)
        r9 == PutIf(Truthy(self.max_length), r8, "maxLength", self.max_length)
        r10 == PutIf(Truthy(self.allowed_values), r9, "allowedValues",
                     self.allowed_values)
    IN  PutIf(Truthy(self.array_element_type), r10, "arrayElementType",
              self.array_element_type)

\* FieldConstraint.to_dict
FieldConstraint_to_dict(self) ==
    LET r1 == Put(NoKeys, "fieldPath", self.field_path)
        r2 == PutIf(Truthy(self.data_type), r1, "dataType", self.data_type)
        r3 == PutIf(Truthy(self.required), r2, "required", self.required)
        r4 == PutIf(~Truthy(self.nullable), r3, "nullable", self.nullable)
        r5 == PutIf(Truthy(self.regex_pattern), r4, "regexPattern", self.regex_pattern)
        r6 == PutIf(self.min_value.t /= "None", r5, "minValue", self.min_value)
        r7 == PutIf(self.max_value.t /= "None", r6, "maxValue", self.max_value)
        r8 == PutIf(self.min_length.t /= "None", r7, "minLength", self.min_length)
        r9 == PutIf(self.max_length.t /= "None", r8, "maxLength", self.max_length)
        r10 == PutIf(Truthy(self.allowed_values), r9, "allowedValues",
                     self.allowed_values)
    IN  PutIf(Truthy(self.array_element_type), r10, "arrayElementType",
              self.array_element_type)

\* SearchFilter.to_dict
SearchFilter_to_dict(self) ==
    LET r1 == Put(NoKeys, "field", self.field)
        r2 == Put(r1, "condition", VStr(self.condition.v))
    IN  PutIf(self.value.t /= "None", r2, "value", self.value)

\* maxResults tested like the lists: `if self.max_results:`.
SearchQuery_to_dict_MaxResultsIfTruthy(self) ==
    LET r1 == PutIf(Truthy(self.filters), NoKeys, "filters",
                    VListOf("dict", [i \in 1..Len(self.filters.v) |->
                                        SearchFilter_to_dict(self.filters.v[i])]))
        r2 == PutIf(Truthy(self.labels), r1, "labels", self.labels)
        r3 == PutIf(Truthy(self.tags), r2, "tags", self.tags)
        r4 == PutIf(Truthy(self.max_results), r3, "maxResults", self.max_results)
        r5 == PutIf(self.skip.t /= "None", r4, "skip", self.skip)
        r6 == PutIf(Truthy(self.ordering), r5, "ordering", VStr(self.ordering.v))
    IN  PutIf(Truthy(self.include_content), r6, "includeContent", self.include_content)

\* SearchQuery.to_dict
SearchQuery_to_dict(self) ==
    LET r1 == PutIf(Truthy(self.filters), NoKeys, "filters",
                    VListOf("dict", [i \in 1..Len(self.filters.v) |->
                                        SearchFilter_to_dict(self.filters.v[i])]))
        r2 == PutIf(Truthy(self.labels), r1, "labels", self.labels)
        r3 == PutIf(Truthy(self.tags), r2, "tags", self.tags)
        r4 == PutIf(self.max_results.t /= "None", r3, "maxResults", self.max_results)
        r5 == PutIf(self.skip.t /= "None", r4, "skip", self.skip)
        r6 == PutIf(Truthy(self.ordering), r5, "ordering", VStr(self.ordering.v))
    IN  PutIf(Truthy(self.include_content), r6, "includeContent", self.include_content)

(***************************************************************************)
(* models.py: the objects callers build and the wire objects servers send  *)
(***************************************************************************)

\* FieldConstraint(...), the attributes that have no wire form left at
\* their defaults.
FieldConstraint(field_path, data_type, required, nullable, regex_pattern, min_value, max_value, min_length, max_length, allowed_values, array_element_type) ==
    [id |-> VStr(<<>>), collection_id |-> VStr(<<>>), field_path |-> field_path,
     data_type |-> data_type, required |-> required, nullable |-> nullable,
     regex_pattern |-> regex_pattern, min_value |-> min_value,
     max_value |-> max_value, min_length |-> min_length,
     max_length |-> max_length, allowed_values |-> allowed_values,
     array_element_type |-> array_element_type,
     created_utc |-> VNone, last_update_utc |-> VNone]

\* SearchFilter(field, condition, value)
SearchFilter(field, condition, value) ==
    [field |-> field, condition |-> condition, value |-> value]

\* SearchQuery(collection_id, ...)
SearchQuery(collection_id, filters, labels, tags, max_results, skip, ordering, include_content) ==
    [collection_id |-> collection_id, filters |-> filters, labels |-> labels,
     tags |-> tags, max_results |-> max_results, skip |-> skip,
     ordering |-> ordering, include_content |-> include_content]

\* A well-formed wire value for a field.
GoodValue(f) ==
    CASE f.conv \in {"datetime", "timestamp"} -> VStr(<<IsoSeconds, "Z">>)
      [] f.conv = "sem" -> VStr(<<"S", "t", "r", "i", "c", "t">>)
      [] f.conv = "im" -> VStr(<<"S", "e", "l", "e", "c", "t", "i", "v", "e">>)
      [] f.conv = "documents" -> VListOf("dict", <<"doc_1">>)
      [] f.dflt.t = "bool" -> VBool(~Truthy(f.dflt))
      [] f.dflt.t = "number" -> VNum("5")
      [] f.dflt.t = "list" -> VList(<<"a">>)
      [] f.dflt.t = "dict" -> VDict("k", <<"v">>)
      [] OTHER -> VStr(<<"x">>)

\* The shapes a timestamp may have on the wire: bare strings, objects with
\* and without a "utc" key, and values of other types.
TimestampValues ==
    {VStr(<<IsoSeconds>>), VStr(<<IsoSeconds, "Z">>),
     VStr(<<IsoSeconds, IsoFraction, "Z">>), VStr(<<"x">>), VStr(<<"Z">>), VStr(<<>>),
     VNum("5"), VList(<<"a">>), VDict("", <<>>),
     VDict("utc", <<IsoSeconds, "Z">>), VDict("utc", <<IsoSeconds, IsoFraction>>),
     VDict("utc", <<"x">>), VDict("local", <<IsoSeconds, "Z">>)}

\* The wire object with the keys in S, each well formed.
PartialObject(entity, S) ==
    [key \in S |-> GoodValue(CHOOSE f \in FieldSet(entity) : f.key = key)]


\* Every spelling of a lower-case word in upper and lower case.
Spellings(word) ==
    {[i \in 1..Len(word) |->
        IF i \in S
        THEN UpperLetters[CHOOSE j \in 1..Len(LowerLetters) : LowerLetters[j] = word[i]]
        ELSE word[i]] : S \in SUBSET (1..Len(word))}

\* What is being converted: the object given to to_dict, the wire form, the
\* object decoded from it; step counts the conversions done.
Codec(kind, obj, wire, back, step) ==
    [kind |-> kind, obj |-> obj, wire |-> wire, back |-> back, step |-> step]

(***************************************************************************)
(* client.py: the operations                                               *)
(***************************************************************************)

\* The result of a call: pending, a returned value, or a raised exception.
Pending == [kind |-> "pending", exc |-> "", cause |-> "", value |-> PyNone]
Return(v) == [kind |-> "return", exc |-> "", cause |-> "", value |-> v]
Raise(exc, cause) == [kind |-> "raise", exc |-> exc, cause |-> cause, value |-> PyNone]

\* Each operation's HTTP method, path template, the shape of its result
\* (single: X | None, list: [X], nested: a list inside the payload object,
\* bool: the envelope's success) and the entity it decodes.
Op(method, route, shape, entity) ==
    [method |-> method, route |-> route, shape |-> shape, entity |-> entity]

OpInfo(op) ==
    CASE op = "collection.create" ->
            Op("PUT", "/v1.0/collections", "single", "Collection")
      [] op = "collection.read_all" ->
            Op("GET", "/v1.0/collections", "list", "Collection")
      [] op = "collection.read_by_id" ->
            Op("GET", "/v1.0/collections/{id}", "single", "Collection")
      [] op = "collection.exists" ->
            Op("HEAD", "/v1.0/collections/{id}", "bool", "")
      [] op = "collection.delete" ->
            Op("DELETE", "/v1.0/collections/{id}", "bool", "")
      [] op = "collection.get_constraints" ->
            Op("GET", "/v1.0/collections/{id}/constraints", "nested", "FieldConstraint")
      [] op = "collection.update_constraints" ->
            Op("PUT", "/v1.0/collections/{id}/constraints", "bool", "")
      [] op = "collection.get_indexed_fields" ->
            Op("GET", "/v1.0/collections/{id}/indexing", "nested", "IndexedField")
      [] op = "collection.update_indexing" ->
            Op("PUT", "/v1.0/collections/{id}/indexing", "bool", "")
      [] op = "collection.rebuild_indexes" ->
            Op("POST", "/v1.0/collections/{id}/indexes/rebuild", "single", "IndexRebuildResult")
      [] op = "document.ingest" ->
            Op("PUT", "/v1.0/collections/{id}/documents", "single", "Document")
      [] op = "document.read_all_in_collection" ->
            Op("GET", "/v1.0/collections/{id}/documents", "list", "Document")
      [] op = "document.read_by_id" ->
            Op("GET", "/v1.0/collections/{id}/documents/{docId}", "single", "Document")
      [] op = "document.exists" ->
            Op("HEAD", "/v1.0/collections/{id}/documents/{docId}", "bool", "")
      [] op = "document.delete" ->
            Op("DELETE", "/v1.0/collections/{id}/documents/{docId}", "bool", "")
      [] op = "search.search" ->
            Op("POST", "/v1.0/collections/{id}/documents/search", "single", "SearchResult")
      [] op = "search.search_by_sql" ->
            Op("POST", "/v1.0/collections/{id}/documents/search", "single", "SearchResult")
      [] op = "search.enumerate" ->
            Op("POST", "/v1.0/collections/{id}/documents/search", "single", "SearchResult")
      [] op = "schema.read_all" ->
            Op("GET", "/v1.0/schemas", "list", "Schema")
      [] op = "schema.read_by_id" ->
            Op("GET", "/v1.0/schemas/{id}", "single", "Schema")
      [] op = "schema.get_elements" ->
            Op("GET", "/v1.0/schemas/{id}/elements", "list", "SchemaElement")
      [] op = "index.get_mappings" ->
            Op("GET", "/v1.0/tables", "list", "IndexTableMapping")
      [] OTHER ->
            Op("GET", "/v1.0/health", "bool", "")

\* The operation-group methods by what they do to the server.
ReadOps ==
    {"collection.read_by_id", "collection.read_all", "collection.get_constraints",
     "collection.get_indexed_fields", "document.read_by_id",
     "document.read_all_in_collection", "search.search", "search.search_by_sql",
     "search.enumerate", "schema.read_all", "schema.read_by_id",
     "schema.get_elements", "index.get_mappings"}
MutationOps ==
    {"collection.create", "collection.delete", "collection.update_constraints",
     "collection.update_indexing", "collection.rebuild_indexes",
     "document.ingest", "document.delete"}
ProbeOps == {"collection.exists", "document.exists"}
GroupOps == ReadOps \cup MutationOps \cup ProbeOps

\* The test with the success check forgotten: `if response.data`.
HasPayload_DataOnly(env) == DataTruthy(env.data)

\* The test with the payload check forgotten: `if response.success`.
HasPayload_SuccessOnly(env) == env.success = "True"

\* `response.success and response.data`, the test every decoding method makes.
HasPayload(env) == env.success = "True" /\ DataTruthy(env.data)

\* `X.from_dict(response.data)`: None gives None, a JSON object decodes,
\* anything else has no .get.
DecodeSingle(entity, d) ==
    CASE d.kind \in {"obj", "emptyobj"} -> Return(Entity_from_dict(entity, d))
      [] d.kind = "null" -> Return(PyNone)
      [] OTHER -> Raise("AttributeError", "")

\* `[X.from_dict(e) for e in response.data]`: a list of objects decodes;
\* the keys of an object, the characters of a string and a string element
\* have no .get; None and a number are not iterable.
DecodeList(entity, d) ==
    CASE d.kind \in {"list", "emptylist", "emptyobj"} -> Return(PyList(entity, d.n))
      [] d.kind \in {"null", "number"} -> Raise("TypeError", "")
      [] OTHER -> Raise("AttributeError", "")

\* `response.data.get(key, [])`, then the list decoded when it is not empty.
DecodeNested(entity, d) ==
    IF d.kind \in {"obj", "emptyobj"} THEN Return(PyList(entity, d.n))
    ELSE Raise("AttributeError", "")

\* What a method does with the ResponseContext _request returned.
MapEnvelope(op, env) ==
    LET info == OpInfo(op) IN
    IF env.isNone THEN Raise("AttributeError", "")
    ELSE CASE info.shape = "bool" -> Return(PyOfTruth(env.success))
           [] info.shape = "single" ->
                IF HasPayload(env) THEN DecodeSingle(info.entity, env.data)
                ELSE Return(PyNone)
           [] info.shape = "list" ->
                IF HasPayload(env) THEN DecodeList(info.entity, env.data)
                ELSE Return(PyList(info.entity, 0))
           [] OTHER ->
                IF HasPayload(env) THEN DecodeNested(info.entity, env.data)
                ELSE Return(PyList(info.entity, 0))

\* `except LatticeException`: the class and its subclasses.
IsLatticeException(exc) ==
    exc \in {"LatticeException", "LatticeConnectionError", "LatticeApiError",
             "LatticeValidationError"}

\* health_check: the envelope's success, or False when _request raised a
\* LatticeException.
health_check_result(out) ==
    IF out.raised
    THEN IF IsLatticeException(out.exc) THEN Return(PyBool("False"))
         ELSE Raise(out.exc, out.cause)
    ELSE IF out.env.isNone THEN Raise("AttributeError", "")
    ELSE Return(PyOfTruth(out.env.success))

\* A method's result from the outcome of its (first) _request call.
MethodResult(op, out) ==
    IF op = "health_check" THEN health_check_result(out)
    ELSE IF out.raised THEN Raise(out.exc, out.cause)
    ELSE MapEnvelope(op, out.env)

\* Documents.read_by_id goes on to the content request: include_content is
\* set and the metadata decoded to a Document.
WantsContent(c, out) ==
    /\ c.op = "document.read_by_id"
    /\ c.include_content
    /\ ~out.raised
    /\ MethodResult(c.op, out).kind = "return"
    /\ MethodResult(c.op, out).value.type = "Document"

\* Documents.read_by_id after the content request: session.get is called
\* directly, so a fault raises the requests exception itself.
read_by_id_content(document, resp) ==
    IF resp.fault /= "none" THEN Raise(RawException(resp.fault), "")
    ELSE Return([document EXCEPT !.content = MergedContent(document.content, resp)])

(***************************************************************************)
(* The state                                                               *)
(***************************************************************************)

VARIABLES
    pc,       \* where the client is: idle, wait1 (first request in flight),
              \* wait2 (content request in flight), returned
    call,     \* the method called and its arguments
    req,      \* the HTTP request last issued
    nreq,     \* how many HTTP requests the call has issued
    resp1,    \* what the network answered to the first request
    resp2,    \* what the network answered to the content request
    env,      \* the ResponseContext _request returned for the first request
    result,   \* the call's result
    server,   \* the Lattice server's store
    last,     \* what the last call that was not an exists probe did, when it
              \* created or deleted something and no other client has acted
              \* since
    codec,    \* models.py on its own: what is being encoded or decoded
    client,   \* the LatticeClient: base_url, timeout, the requests.Session
              \* and the five method groups
    callbacks \* how many times the call has invoked the progress_callback
              \* it was given

vars == <<pc, call, req, nreq, resp1, resp2, env, result, server, last, codec,
          client, callbacks>>

NoCall == [op |-> "", collection_id |-> NoId, document_id |-> NoId,
           schema_id |-> NoId, include_content |-> FALSE, arg |-> VNone]
NoReq == [method |-> "", route |-> "", collection_id |-> NoId, document_id |-> NoId,
          schema_id |-> NoId, include_content |-> "", via |-> "", body |-> VNone,
          base_url |-> <<>>, timeout |-> 0, session |-> ""]
NoPrev == [kind |-> "none", collection_id |-> NoId, document_id |-> NoId]
EmptyStore == [cols |-> {}, docs |-> {}, nextCol |-> 1, nextDoc |-> 1]

\* LatticeClient(base_url, timeout): the address without its trailing
\* slashes, a new requests.Session, and the five groups bound to the client.
LatticeClient(base_url, timeout) ==
    [base_url |-> rstrip(base_url, "/"), timeout |-> timeout,
     session |-> "requests.Session#1",
     collection |-> "CollectionMethods", document |-> "DocumentMethods",
     search |-> "SearchMethods", schema |-> "SchemaMethods",
     index |-> "IndexMethods"]

\* LatticeClient.__init__, with the address as the caller wrote it and the
\* default timeout: nothing has been called; the server is empty.
Init ==
    /\ pc = "idle"
    /\ call = NoCall
    /\ req = NoReq
    /\ nreq = 0
    /\ resp1 = NoResp
    /\ resp2 = NoResp
    /\ env = NoEnvelope
    /\ result = Pending
    /\ server = EmptyStore
    /\ last = NoPrev
    /\ codec = Codec("", VNone, VNone, VNone, 0)
    /\ \E base_url \in {<<"http://localhost:8000">>, <<"http://localhost:8000", "/">>} :
            client = LatticeClient(base_url, 30)
    /\ callbacks = 0

\* labels tested with `is not None`: an empty list is sent.
create_data_LabelsUnlessNone(name, description, documents_directory, labels, tags, schema_enforcement_mode, field_constraints, indexing_mode, indexed_fields) ==
    LET d1 == Put(NoKeys, "name", name)
        d2 == PutIf(Truthy(description), d1, "description", description)
        d3 == PutIf(Truthy(documents_directory), d2, "documentsDirectory",
                    documents_directory)
        d4 == PutIf(labels.t /= "None", d3, "labels", labels)
        d5 == PutIf(Truthy(tags), d4, "tags", tags)
        d6 == PutIf(schema_enforcement_mode /= SchemaEnforcementMode("None"), d5,
                    "schemaEnforcementMode", VStr(schema_enforcement_mode.v))
        d7 == PutIf(Truthy(field_constraints), d6, "fieldConstraints",
                    VListOf("dict", [i \in 1..Len(field_constraints.v) |->
                                        FieldConstraint_to_dict(field_constraints.v[i])]))
        d8 == PutIf(indexing_mode /= IndexingMode("All"), d7,
                    "indexingMode", VStr(indexing_mode.v))
    IN  PutIf(Truthy(indexed_fields), d8, "indexedFields", indexed_fields)

\* The data Collections.create builds from its arguments.
create_data(name, description, documents_directory, labels, tags, schema_enforcement_mode, field_constraints, indexing_mode, indexed_fields) ==
    LET d1 == Put(NoKeys, "name", name)
        d2 == PutIf(Truthy(description), d1, "description", description)
        d3 == PutIf(Truthy(documents_directory), d2, "documentsDirectory",
                    documents_directory)
        d4 == PutIf(Truthy(labels), d3, "labels", labels)
        d5 == PutIf(Truthy(tags), d4, "tags", tags)
        d6 == PutIf(schema_enforcement_mode /= SchemaEnforcementMode("None"), d5,
                    "schemaEnforcementMode", VStr(schema_enforcement_mode.v))
        d7 == PutIf(Truthy(field_constraints), d6, "fieldConstraints",
                    VListOf("dict", [i \in 1..Len(field_constraints.v) |->
                                        FieldConstraint_to_dict(field_constraints.v[i])]))
        d8 == PutIf(indexing_mode /= IndexingMode("All"), d7,
                    "indexingMode", VStr(indexing_mode.v))
    IN  PutIf(Truthy(indexed_fields), d8, "indexedFields", indexed_fields)

\* enumerate sending its query without filters, labels and tags.
RequestBody_EnumerateUnfiltered(c) ==
    CASE c.op = "collection.create" ->
            create_data(c.arg, VNone, VNone, VNone, VNone, SchemaEnforcementMode("None"),
                        VNone, IndexingMode("All"), VNone)
      [] c.op = "collection.update_constraints" ->
            Put(NoKeys, "schemaEnforcementMode", VStr(<<"Strict">>))
      [] c.op = "collection.update_indexing" ->
            Put(Put(NoKeys, "indexingMode", VStr(<<"Selective">>)),
                "rebuildIndexes", VBool(FALSE))
      [] c.op = "collection.rebuild_indexes" ->
            Put(NoKeys, "dropUnusedIndexes", VBool(TRUE))
      [] c.op = "document.ingest" -> Put(NoKeys, "content", VDict("k", <<"v">>))
      [] c.op = "search.search" -> SearchQuery_to_dict(c.arg)
      [] c.op = "search.enumerate" ->
            SearchQuery_to_dict([c.arg EXCEPT !.filters = VNone, !.labels = VNone,
                                              !.tags = VNone])
      [] c.op = "search.search_by_sql" -> Put(NoKeys, "sqlExpression", c.arg)
      [] OTHER -> VNone

\* search_by_sql sending a page size with the expression.
RequestBody_SqlWithPaging(c) ==
    CASE c.op = "collection.create" ->
            create_data(c.arg, VNone, VNone, VNone, VNone, SchemaEnforcementMode("None"),
                        VNone, IndexingMode("All"), VNone)
      [] c.op = "collection.update_constraints" ->
            Put(NoKeys, "schemaEnforcementMode", VStr(<<"Strict">>))
      [] c.op = "collection.update_indexing" ->
            Put(Put(NoKeys, "indexingMode", VStr(<<"Selective">>)),
                "rebuildIndexes", VBool(FALSE))
      [] c.op = "collection.rebuild_indexes" ->
            Put(NoKeys, "dropUnusedIndexes", VBool(TRUE))
      [] c.op = "document.ingest" -> Put(NoKeys, "content", VDict("k", <<"v">>))
      [] c.op \in {"search.search", "search.enumerate"} -> SearchQuery_to_dict(c.arg)
      [] c.op = "search.search_by_sql" ->
            Put(Put(NoKeys, "sqlExpression", c.arg), "maxResults", VNum("5"))
      [] OTHER -> VNone

\* The JSON body a method hands to _request as data (None when it hands
\* none); arguments the model does not vary are at their defaults (create)
\* or at the values the test harness gives them.
RequestBody(c) ==
    CASE c.op = "collection.create" ->
            create_data(c.arg, VNone, VNone, VNone, VNone, SchemaEnforcementMode("None"),
                        VNone, IndexingMode("All"), VNone)
      [] c.op = "collection.update_constraints" ->
            Put(NoKeys, "schemaEnforcementMode", VStr(<<"Strict">>))
      [] c.op = "collection.update_indexing" ->
            Put(Put(NoKeys, "indexingMode", VStr(<<"Selective">>)),
                "rebuildIndexes", VBool(FALSE))
      [] c.op = "collection.rebuild_indexes" ->
            Put(NoKeys, "dropUnusedIndexes", VBool(TRUE))
      [] c.op = "document.ingest" -> Put(NoKeys, "content", VDict("k", <<"v">>))
      [] c.op \in {"search.search", "search.enumerate"} -> SearchQuery_to_dict(c.arg)
      [] c.op = "search.search_by_sql" -> Put(NoKeys, "sqlExpression", c.arg)
      [] OTHER -> VNone

\* Documents.exists probing the collection's path instead of the document's.
FirstRequest_ProbeCollection(c) ==
    [method |-> OpInfo(c.op).method,
     route |-> IF c.op = "document.exists" THEN "/v1.0/collections/{id}"
               ELSE OpInfo(c.op).route,
     collection_id |-> c.collection_id, document_id |-> c.document_id,
     schema_id |-> c.schema_id,
     include_content |->
        CASE c.op = "document.read_by_id" -> "false"
          [] c.op = "document.read_all_in_collection" ->
                IF c.include_content THEN "true" ELSE "false"
          [] OTHER -> "",
     via |-> "_request", body |-> RequestBody(c),
     base_url |-> client.base_url, timeout |-> client.timeout,
     session |-> client.session]

\* Collections.create sent as a POST.
FirstRequest_CreateByPost(c) ==
    [method |-> IF c.op = "collection.create" THEN "POST" ELSE OpInfo(c.op).method,
     route |-> OpInfo(c.op).route,
     collection_id |-> c.collection_id, document_id |-> c.document_id,
     schema_id |-> c.schema_id,
     include_content |->
        CASE c.op = "document.read_by_id" -> "false"
          [] c.op = "document.read_all_in_collection" ->
                IF c.include_content THEN "true" ELSE "false"
          [] OTHER -> "",
     via |-> "_request", body |-> RequestBody(c),
     base_url |-> client.base_url, timeout |-> client.timeout,
     session |-> client.session]

\* The request a method hands to _request: its method and path, the ids
\* substituted, includeContent as the query string carries it.
FirstRequest(c) ==
    [method |-> OpInfo(c.op).method, route |-> OpInfo(c.op).route,
     collection_id |-> c.collection_id, document_id |-> c.document_id,
     schema_id |-> c.schema_id,
     include_content |->
        CASE c.op = "document.read_by_id" -> "false"
          [] c.op = "document.read_all_in_collection" ->
                IF c.include_content THEN "true" ELSE "false"
          [] OTHER -> "",
     via |-> "_request", body |-> RequestBody(c),
     base_url |-> client.base_url, timeout |-> client.timeout,
     session |-> client.session]

\* The content request of Documents.read_by_id: session.get on the same path.
ContentRequest(c) ==
    [method |-> "GET", route |-> "/v1.0/collections/{id}/documents/{docId}",
     collection_id |-> c.collection_id, document_id |-> c.document_id,
     schema_id |-> NoId, include_content |-> "true", via |-> "session.get",
     body |-> VNone, base_url |-> client.base_url, timeout |-> client.timeout,
     session |-> client.session]

\* What the call that returns r did, for the call that follows it; an
\* exists probe leaves it as it was.
Summary(c, r) ==
    CASE c.op \in ProbeOps -> last
      [] r.kind = "return" /\ c.op = "collection.create" /\ r.value.type = "Collection" ->
            [kind |-> "created", collection_id |-> r.value.id, document_id |-> NoId]
      [] r.kind = "return" /\ c.op = "document.ingest" /\ r.value.type = "Document" ->
            [kind |-> "created", collection_id |-> c.collection_id,
             document_id |-> r.value.id]
      [] r.kind = "return" /\ c.op \in {"collection.delete", "document.delete"}
           /\ r.value = PyBool("True") ->
            [kind |-> "deleted", collection_id |-> c.collection_id,
             document_id |-> c.document_id]
      [] OTHER -> NoPrev

\* Every call opening a requests.Session of its own.
Invoke_FreshSession(op, cid, did, sid, inc, arg) ==
    /\ pc \in {"idle", "returned"}
    /\ pc' = "wait1"
    /\ call' = [op |-> op, collection_id |-> cid, document_id |-> did,
                schema_id |-> sid, include_content |-> inc, arg |-> arg]
    /\ client' = [client EXCEPT !.session = "requests.Session#2"]
    /\ req' = [FirstRequest(call') EXCEPT !.session = "requests.Session#2"]
    /\ nreq' = 1
    /\ resp1' = NoResp
    /\ resp2' = NoResp
    /\ env' = NoEnvelope
    /\ result' = Pending
    /\ callbacks' = 0
    /\ UNCHANGED <<server, last, codec>>

\* A method is called: it builds its request and hands it to _request.
Invoke(op, cid, did, sid, inc, arg) ==
    /\ pc \in {"idle", "returned"}
    /\ pc' = "wait1"
    /\ call' = [op |-> op, collection_id |-> cid, document_id |-> did,
                schema_id |-> sid, include_content |-> inc, arg |-> arg]
    /\ req' = FirstRequest(call')
    /\ nreq' = 1
    /\ resp1' = NoResp
    /\ resp2' = NoResp
    /\ env' = NoEnvelope
    /\ result' = Pending
    /\ callbacks' = 0
    /\ UNCHANGED <<server, last, codec, client>>

\* The SearchQuery objects a caller passes to search and enumerate: the
\* whole collection, a query with everything set, and pages of the whole
\* collection (max_results, skip).
ClientQueries ==
    {SearchQuery(NoId, VNone, VNone, VNone, VNone, VNone, VNone, VBool(FALSE)),
     SearchQuery(NoId,
                 VListOf("SearchFilter",
                         <<SearchFilter(VStr(<<"f">>), VEnum("SearchCondition", "Equals"),
                                        VStr(<<"x">>))>>),
                 VList(<<"a">>), VDict("k", <<"v">>), VNum("5"), VNum("0"),
                 VEnum("EnumerationOrder", "CreatedAscending"), VBool(TRUE))}
    \cup {SearchQuery(NoId, VNone, VNone, VNone, VNum(p[1]), VNum(p[2]), VNone,
                      VBool(FALSE)) :
            p \in {<<"0", "0">>, <<"1", "0">>, <<"2", "1">>, <<"1", "3">>}}

health_check == Invoke("health_check", NoId, NoId, NoId, FALSE, VNone)

CollectionCreate ==
    \E name \in {VStr(<<>>), VStr(<<"x">>)} :
        Invoke("collection.create", NoId, NoId, NoId, FALSE, name)
CollectionReadAll == Invoke("collection.read_all", NoId, NoId, NoId, FALSE, VNone)
CollectionReadById ==
    \E c \in ColIds : Invoke("collection.read_by_id", c, NoId, NoId, FALSE, VNone)
CollectionExists ==
    \E c \in ColIds : Invoke("collection.exists", c, NoId, NoId, FALSE, VNone)
CollectionDelete ==
    \E c \in ColIds : Invoke("collection.delete", c, NoId, NoId, FALSE, VNone)
CollectionGetConstraints ==
    \E c \in ColIds : Invoke("collection.get_constraints", c, NoId, NoId, FALSE, VNone)
CollectionUpdateConstraints ==
    \E c \in ColIds : Invoke("collection.update_constraints", c, NoId, NoId, FALSE, VNone)
CollectionGetIndexedFields ==
    \E c \in ColIds : Invoke("collection.get_indexed_fields", c, NoId, NoId, FALSE, VNone)
CollectionUpdateIndexing ==
    \E c \in ColIds : Invoke("collection.update_indexing", c, NoId, NoId, FALSE, VNone)
\* arg: whether a progress_callback is given
CollectionRebuildIndexes ==
    \E c \in ColIds, progress_callback \in BOOLEAN :
        Invoke("collection.rebuild_indexes", c, NoId, NoId, FALSE,
               VBool(progress_callback))

DocumentIngest ==
    \E c \in ColIds : Invoke("document.ingest", c, NoId, NoId, FALSE, VNone)
DocumentReadAllInCollection ==
    \E c \in ColIds, inc \in BOOLEAN :
        Invoke("document.read_all_in_collection", c, NoId, NoId, inc, VNone)
DocumentReadById ==
    \E c \in ColIds, d \in DocIds, inc \in BOOLEAN :
        Invoke("document.read_by_id", c, d, NoId, inc, VNone)
DocumentExists ==
    \E c \in ColIds, d \in DocIds : Invoke("document.exists", c, d, NoId, FALSE, VNone)
DocumentDelete ==
    \E c \in ColIds, d \in DocIds : Invoke("document.delete", c, d, NoId, FALSE, VNone)

SearchSearch ==
    \E c \in ColIds, q \in ClientQueries :
        Invoke("search.search", c, NoId, NoId, FALSE, [q EXCEPT !.collection_id = c])
SearchBySql ==
    \E c \in ColIds, sql \in {VStr(<<>>), VStr(<<"SELECT * FROM documents">>)} :
        Invoke("search.search_by_sql", c, NoId, NoId, FALSE, sql)
SearchEnumerate ==
    \E c \in ColIds, q \in ClientQueries :
        Invoke("search.enumerate", c, NoId, NoId, FALSE, [q EXCEPT !.collection_id = c])

SchemaReadAll == Invoke("schema.read_all", NoId, NoId, NoId, FALSE, VNone)
SchemaReadById == Invoke("schema.read_by_id", NoId, NoId, SchemaId, FALSE, VNone)
SchemaGetElements == Invoke("schema.get_elements", NoId, NoId, SchemaId, FALSE, VNone)

IndexGetMappings == Invoke("index.get_mappings", NoId, NoId, NoId, FALSE, VNone)

\* Any method of the client is called.
Calls ==
    \/ health_check
    \/ CollectionCreate \/ CollectionReadAll \/ CollectionReadById
    \/ CollectionExists \/ CollectionDelete
    \/ CollectionGetConstraints \/ CollectionUpdateConstraints
    \/ CollectionGetIndexedFields \/ CollectionUpdateIndexing
    \/ CollectionRebuildIndexes
    \/ DocumentIngest \/ DocumentReadAllInCollection \/ DocumentReadById
    \/ DocumentExists \/ DocumentDelete
    \/ SearchSearch \/ SearchBySql \/ SearchEnumerate
    \/ SchemaReadAll \/ SchemaReadById \/ SchemaGetElements
    \/ IndexGetMappings

\* The first request is answered with resp: _request turns it into an
\* envelope or an exception, and the method returns, raises, or (read_by_id
\* with include_content) issues the content request.
FirstAnswered(resp) ==
    LET out == _request(req.method, resp) IN
    /\ pc = "wait1"
    /\ resp1' = resp
    /\ env' = out.env
    /\ IF WantsContent(call, out)
       THEN /\ pc' = "wait2"
            /\ req' = ContentRequest(call)
            /\ nreq' = nreq + 1
            /\ UNCHANGED <<result, last>>
       ELSE /\ pc' = "returned"
            /\ result' = MethodResult(call.op, out)
            /\ last' = Summary(call, result')
            /\ UNCHANGED <<req, nreq>>
    /\ UNCHANGED <<call, resp2, codec, client, callbacks>>

\* The content request is answered with resp: read_by_id returns the
\* Document it decoded from the first answer, the content merged in.
ContentAnswered(resp) ==
    /\ pc = "wait2"
    /\ resp2' = resp
    /\ pc' = "returned"
    /\ result' = read_by_id_content(MethodResult(call.op, Returned(env)).value, resp)
    /\ last' = Summary(call, result')
    /\ UNCHANGED <<call, req, nreq, resp1, env, codec, client, callbacks>>

(***************************************************************************)
(* An arbitrary HTTP endpoint                                              *)
(***************************************************************************)

\* The payloads an endpoint may put in an envelope; an object's id is
\* none, a collection's or a document's.
Payloads ==
    {PlainData(k) : k \in {"null", "emptyobj", "emptylist", "badlist", "text", "number"}}
    \cup {ListData(n) : n \in 1..2}
    \cup {ObjData(id, content, n) :
            id \in {NoId, [prefix |-> "col_", n |-> 1], [prefix |-> "doc_", n |-> 1]},
            content \in {"None", "json"}, n \in 0..1}

\* The bodies an endpoint may send.
Bodies ==
    {PlainBody(k) : k \in {"empty", "nonjson", "null", "nonobject"}}
    \cup {ObjectBody(s, code, d) :
            s \in PyTruth \cup {"missing"}, code \in {-1, 200}, d \in Payloads}

\* Everything the network may give back for a request.
Answers ==
    {FaultResp(f) : f \in Faults}
    \cup {HttpResp(st, b) : st \in StatusCodes, b \in Bodies}

\* A HEAD response has no body; of the answer to the content request only
\* the status and the kind of body are read.
AnswersTo(r) ==
    CASE r.method = "HEAD" ->
            {a \in Answers : a.fault /= "none" \/ a.body = EmptyBody}
      [] r.via = "session.get" ->
            {a \in Answers : a.fault /= "none"
                              \/ a.body.kind /= "object"
                              \/ a.body = ObjectBody("missing", -1, NullData)}
      [] OTHER -> Answers

EndpointAnswers ==
    \E resp \in AnswersTo(req) :
        /\ FirstAnswered(resp)
        /\ UNCHANGED server

EndpointAnswersContent ==
    \E resp \in AnswersTo(req) :
        /\ ContentAnswered(resp)
        /\ UNCHANGED server

Next == Calls \/ EndpointAnswers \/ EndpointAnswersContent

Spec == Init /\ [][Next]_vars

(***************************************************************************)
(* The Lattice server (spec.md sections 3, 4.3, 6 and 8): a store of       *)
(* collections and of documents, each document in one collection.          *)
(***************************************************************************)

\* The envelopes the server sends.
Ok(data) == HttpResp(200, ObjectBody("True", 200, data))
Rejected == HttpResp(400, ObjectBody("False", 400, NullData))
NotFound == HttpResp(404, ObjectBody("False", 404, NullData))
ListOf(n) == IF n = 0 THEN PlainData("emptylist") ELSE ListData(n)

NewCol(st) == [prefix |-> "col_", n |-> st.nextCol]
NewDoc(st) == [prefix |-> "doc_", n |-> st.nextDoc]
DocsIn(st, c) == {d \in st.docs : d.col = c}
HasCol(st, c) == c \in st.cols
HasDoc(st, c, d) == [col |-> c, doc |-> d] \in st.docs
Served(resp, st) == [resp |-> resp, store |-> st]

\* The number a JSON number of the request body stands for.
NumberOf(x) == CHOOSE i \in 0..9 : ToString(i) = x.v[1]

\* The page of a search that total documents satisfy: the documents after
\* the first skip, at most maxResults of them; totalRecords counts before
\* pagination, endOfResults says that no record remains after the page.
SearchPage(body, total) ==
    LET skip == IF "skip" \in DOMAIN body THEN NumberOf(body["skip"]) ELSE 0
        rest == IF total > skip THEN total - skip ELSE 0
        n == IF "maxResults" \in DOMAIN body /\ NumberOf(body["maxResults"]) < rest
             THEN NumberOf(body["maxResults"])
             ELSE rest
    IN  Put(Put(ObjData(NoId, "None", n), "totalRecords", total),
            "endOfResults", PyBoolStr(skip + n >= total))

\* The server's answers to a request on the collections resource.
ServeCollections(r, st) ==
    LET c == r.collection_id IN
    CASE r.route = "/v1.0/collections" /\ r.method = "PUT" ->
            {Served(Rejected, st)} \cup
            (IF st.nextCol <= MaxCollections
             THEN {Served(Ok(ObjData(NewCol(st), "None", 0)),
                          [st EXCEPT !.cols = @ \cup {NewCol(st)}, !.nextCol = @ + 1])}
             ELSE {})
      [] r.route = "/v1.0/collections" ->
            {Served(Ok(ListOf(Cardinality(st.cols))), st)}
      [] ~HasCol(st, c) ->
            {Served(IF r.method = "HEAD" THEN HttpResp(404, EmptyBody) ELSE NotFound, st)}
      [] r.method = "HEAD" ->
            {Served(HttpResp(200, EmptyBody), st)}
      [] r.method = "DELETE" ->
            {Served(Ok(NullData),
                    [st EXCEPT !.cols = @ \ {c}, !.docs = @ \ DocsIn(st, c)])}
      [] r.method = "PUT" ->
            {Served(Ok(NullData), st), Served(Rejected, st)}
      [] r.method = "POST" ->
            {Served(Ok(ObjData(c, "None", 0)), st)}
      [] r.route = "/v1.0/collections/{id}" ->
            {Served(Ok(ObjData(c, "None", 0)), st)}
      [] OTHER ->
            {Served(Ok(ObjData(NoId, "None", n)), st) : n \in 0..1}

\* The server's answers to a request on the documents of a collection.
ServeDocuments(r, st) ==
    LET c == r.collection_id
        d == r.document_id
    IN
    CASE ~HasCol(st, c) ->
            {Served(IF r.method = "HEAD" THEN HttpResp(404, EmptyBody) ELSE NotFound, st)}
      [] r.route = "/v1.0/collections/{id}/documents" /\ r.method = "PUT" ->
            {Served(Rejected, st)} \cup
            (IF st.nextDoc <= MaxDocuments
             THEN {Served(Ok(Put(ObjData(NewDoc(st), "None", 0), "schemaId", SchemaId)),
                          [st EXCEPT !.docs = @ \cup {[col |-> c, doc |-> NewDoc(st)]},
                                     !.nextDoc = @ + 1])}
             ELSE {})
      [] r.route = "/v1.0/collections/{id}/documents" ->
            {Served(Ok(ListOf(Cardinality(DocsIn(st, c)))), st)}
      [] r.route = "/v1.0/collections/{id}/documents/search" ->
            \* a query without filters, labels, tags and expression
            \* enumerates the collection; which documents satisfy a
            \* predicate is up to their content
            {Served(Ok(SearchPage(r.body, total)), st) :
                total \in IF \E key \in {"filters", "labels", "tags", "sqlExpression"} :
                                key \in DOMAIN r.body
                          THEN 0..Cardinality(DocsIn(st, c))
                          ELSE {Cardinality(DocsIn(st, c))}}
      [] ~HasDoc(st, c, d) ->
            {Served(IF r.method = "HEAD" THEN HttpResp(404, EmptyBody) ELSE NotFound, st)}
      [] r.method = "HEAD" ->
            {Served(HttpResp(200, EmptyBody), st)}
      [] r.method = "DELETE" ->
            {Served(Ok(NullData), [st EXCEPT !.docs = @ \ {[col |-> c, doc |-> d]}])}
      [] r.include_content = "true" ->
            \* the raw JSON content, not an envelope
            {Served(HttpResp(200, ObjectBody("missing", -1, NullData)), st)}
      [] OTHER ->
            {Served(Ok(Put(ObjData(d, "None", 0), "schemaId", SchemaId)), st)}

\* The server's answers to the global reads: one schema describes every
\* document ingested so far.
ServeGlobal(r, st) ==
    LET n == IF st.nextDoc > 1 THEN 1 ELSE 0 IN
    CASE r.route = "/v1.0/health" -> {Served(Ok(NullData), st)}
      [] r.route = "/v1.0/schemas/{id}" ->
            {Served(IF n = 1 THEN Ok(ObjData(r.schema_id, "None", 0)) ELSE NotFound, st)}
      [] OTHER -> {Served(Ok(ListOf(n)), st)}

\* The server's answers to request r in store st, each with the store after.
Serve(r, st) ==
    IF r.route \in {"/v1.0/health", "/v1.0/schemas", "/v1.0/schemas/{id}",
                    "/v1.0/schemas/{id}/elements", "/v1.0/tables"}
    THEN ServeGlobal(r, st)
    ELSE IF r.route \in {"/v1.0/collections/{id}/documents",
                         "/v1.0/collections/{id}/documents/{docId}",
                         "/v1.0/collections/{id}/documents/search"}
    THEN ServeDocuments(r, st)
    ELSE ServeCollections(r, st)

\* What the client gets and what becomes of the store: the server's answer,
\* or a fault; a request that timed out may have been carried out.
Exchange(r, st) ==
    Serve(r, st)
    \cup {Served(FaultResp(f), st) : f \in Faults}
    \cup {Served(FaultResp("timeout"), x.store) : x \in Serve(r, st)}

LatticeAnswers ==
    \E x \in Exchange(req, server) :
        /\ FirstAnswered(x.resp)
        /\ server' = x.store

LatticeAnswersContent ==
    \E x \in Exchange(req, server) :
        /\ ContentAnswered(x.resp)
        /\ server' = x.store

\* Another client of the same server deletes a collection or a document.
OtherClientDeletesCollection ==
    \E c \in server.cols :
        /\ server' = [server EXCEPT !.cols = @ \ {c}, !.docs = @ \ DocsIn(server, c)]
        /\ last' = NoPrev
        /\ UNCHANGED <<pc, call, req, nreq, resp1, resp2, env, result, codec,
                       client, callbacks>>

OtherClientDeletesDocument ==
    \E d \in server.docs :
        /\ server' = [server EXCEPT !.docs = @ \ {d}]
        /\ last' = NoPrev
        /\ UNCHANGED <<pc, call, req, nreq, resp1, resp2, env, result, codec,
                       client, callbacks>>

NextLattice ==
    \/ Calls
    \/ LatticeAnswers
    \/ LatticeAnswersContent
    \/ OtherClientDeletesCollection
    \/ OtherClientDeletesDocument

SpecLattice == Init /\ [][NextLattice]_vars

(***************************************************************************)
(* models.py on its own: an object is encoded (to_dict) and the wire       *)
(* object decoded (from_dict), or a wire object or value is decoded.       *)
(***************************************************************************)

InitCodec ==
    /\ pc = "idle"
    /\ call = NoCall
    /\ req = NoReq
    /\ nreq = 0
    /\ resp1 = NoResp
    /\ resp2 = NoResp
    /\ env = NoEnvelope
    /\ result = Pending
    /\ server = EmptyStore
    /\ last = NoPrev
    /\ client = LatticeClient(<<"http://localhost:8000">>, 30)
    /\ callbacks = 0
    /\ \/ \* a caller builds a FieldConstraint
          \E fp \in {VStr(<<>>), VStr(<<"a">>)},
             dt \in {VNone, VStr(<<>>), VStr(<<"x">>)},
             rq \in {VBool(FALSE), VBool(TRUE)}, nl \in {VBool(FALSE), VBool(TRUE)},
             rx \in {VNone, VStr(<<>>), VStr(<<"x">>)},
             mnv \in {VNone, VNum("0")}, mxv \in {VNone, VNum("0"), VNum("5")},
             mnl \in {VNone, VNum("0")}, mxl \in {VNone, VNum("0"), VNum("5")},
             av \in {VNone, VList(<<>>), VList(<<"a">>)},
             aet \in {VNone, VStr(<<>>)} :
            codec = Codec("FieldConstraint",
                          FieldConstraint(fp, dt, rq, nl, rx, mnv, mxv, mnl, mxl, av, aet),
                          VNone, VNone, 0)
       \/ \* a caller builds a SearchFilter
          \E f \in {VStr(<<>>), VStr(<<"f">>)},
             c \in {"Equals", "IsNull", "IsNotNull"},
             v \in {VNone, VStr(<<>>), VStr(<<"x">>)} :
            codec = Codec("SearchFilter", SearchFilter(f, VEnum("SearchCondition", c), v),
                          VNone, VNone, 0)
       \/ \* a caller builds a SearchQuery
          \E fs \in {VNone, VList(<<>>)}
                     \cup {VListOf("SearchFilter",
                                   <<SearchFilter(VStr(<<"f">>),
                                                  VEnum("SearchCondition", c[1]), c[2])>>) :
                              c \in {<<"Equals", VStr(<<"x">>)>>,
                                     <<"IsNull", VStr(<<"x">>)>>,
                                     <<"IsNotNull", VNone>>}},
             ls \in {VNone, VList(<<>>), VList(<<"a">>)},
             ts \in {VNone, VDict("", <<>>), VDict("k", <<"v">>)},
             mx \in {VNone, VNum("0"), VNum("5")},
             sk \in {VNone, VNum("0")},
             od \in {VNone, VEnum("EnumerationOrder", "CreatedAscending")},
             ic \in {VBool(FALSE), VBool(TRUE)} :
            codec = Codec("SearchQuery", SearchQuery(NoId, fs, ls, ts, mx, sk, od, ic),
                          VNone, VNone, 0)
       \/ \* a caller passes arguments to Collections.create
          \E name \in {VStr(<<>>), VStr(<<"x">>)},
             description \in {VNone, VStr(<<>>), VStr(<<"x">>)},
             documents_directory \in {VNone, VStr(<<>>), VStr(<<"x">>)},
             labels \in {VNone, VList(<<>>), VList(<<"a">>)},
             tags \in {VNone, VDict("", <<>>), VDict("k", <<"v">>)},
             schema_enforcement_mode \in {SchemaEnforcementMode("None"),
                                          SchemaEnforcementMode("Strict")},
             field_constraints \in
                {VNone, VList(<<>>),
                 VListOf("FieldConstraint",
                         <<FieldConstraint(VStr(<<"a">>), VStr(<<"x">>), VBool(TRUE),
                                           VBool(TRUE), VNone, VNone, VNone, VNone,
                                           VNone, VNone, VNone)>>)},
             indexing_mode \in {IndexingMode("All"), IndexingMode("Selective"),
                                IndexingMode("None")},
             indexed_fields \in {VNone, VList(<<>>), VList(<<"a">>)} :
            codec = Codec("Collections.create",
                          [name |-> name, description |-> description,
                           documents_directory |-> documents_directory,
                           labels |-> labels, tags |-> tags,
                           schema_enforcement_mode |-> schema_enforcement_mode,
                           field_constraints |-> field_constraints,
                           indexing_mode |-> indexing_mode,
                           indexed_fields |-> indexed_fields],
                          VNone, VNone, 0)
       \/ \* a server sends a wire object: any subset of the keys, each well
          \* formed
          \E e \in Entities :
            \E S \in SUBSET {f.key : f \in FieldSet(e)} :
                codec = Codec(e, VNone, PartialObject(e, S), VNone, 1)
       \/ \* one key null, the other keys all there or all missing
          \E e \in Entities :
            \E f \in FieldSet(e), S \in {{}, {g.key : g \in FieldSet(e)}} :
                codec = Codec(e, VNone, Put(PartialObject(e, S), f.key, VNone), VNone, 1)
       \/ \* a timestamp of any shape, the other keys all there
          \E e \in Entities :
            \E f \in FieldSet(e), x \in TimestampValues :
                /\ f.conv \in {"datetime", "timestamp"}
                /\ codec = Codec(e, VNone,
                                 Put(PartialObject(e, {g.key : g \in FieldSet(e)}), f.key, x),
                                 VNone, 1)
       \/ \* a server sends a value for a timestamp
          \E x \in TimestampValues \cup {VNone} :
            codec = Codec("_parse_datetime", VNone, x, VNone, 1)
       \/ \* a server sends a value for an enum: a member of either enum in
          \* any spelling, another string, null, or a value that is no string
          \E p \in {"_parse_schema_enforcement_mode", "_parse_indexing_mode"},
             x \in {VStr(s) : s \in UNION {Spellings(w) :
                                    w \in {<<"n", "o", "n", "e">>,
                                           <<"s", "t", "r", "i", "c", "t">>,
                                           <<"f", "l", "e", "x", "i", "b", "l", "e">>,
                                           <<"p", "a", "r", "t", "i", "a", "l">>,
                                           <<"a", "l", "l">>,
                                           <<"s", "e", "l", "e", "c", "t", "i", "v", "e">>}}}
                   \cup {VStr(<<>>), VStr(<<"x">>), VStr(<<"n", "o", "n">>),
                         VStr(<<"s", "t", "r", "i", "c", "t", " ">>), VNone,
                         VNum("5"), VNum("0"), VBool(TRUE), VList(<<>>),
                         VDict("k", <<"v">>)} :
            codec = Codec(p, VNone, x, VNone, 1)

\* One conversion: the wire form of an object, or the object of a wire form.
Converted(wire, back) ==
    /\ codec' = [codec EXCEPT !.wire = wire, !.back = back, !.step = @ + 1]
    /\ UNCHANGED <<pc, call, req, nreq, resp1, resp2, env, result, server, last,
                   client, callbacks>>

FieldConstraintToDict ==
    /\ codec.kind = "FieldConstraint"
    /\ codec.step = 0
    /\ Converted(FieldConstraint_to_dict(codec.obj), VNone)

SearchFilterToDict ==
    /\ codec.kind = "SearchFilter"
    /\ codec.step = 0
    /\ Converted(SearchFilter_to_dict(codec.obj), VNone)

SearchQueryToDict ==
    /\ codec.kind = "SearchQuery"
    /\ codec.step = 0
    /\ Converted(SearchQuery_to_dict(codec.obj), VNone)

\* Collections.create builds its data (and then sends it).
CollectionCreateData ==
    /\ codec.kind = "Collections.create"
    /\ codec.step = 0
    /\ Converted(create_data(codec.obj.name, codec.obj.description,
                             codec.obj.documents_directory, codec.obj.labels,
                             codec.obj.tags, codec.obj.schema_enforcement_mode,
                             codec.obj.field_constraints, codec.obj.indexing_mode,
                             codec.obj.indexed_fields),
                 VNone)

FromDict ==
    /\ codec.kind \in Entities
    /\ codec.step = 1
    /\ Converted(codec.wire, from_dict(codec.kind, codec.wire))

ParseDatetime ==
    /\ codec.kind = "_parse_datetime"
    /\ codec.step = 1
    /\ Converted(codec.wire, _parse_datetime(codec.wire))

ParseSchemaEnforcementMode ==
    /\ codec.kind = "_parse_schema_enforcement_mode"
    /\ codec.step = 1
    /\ Converted(codec.wire, _parse_schema_enforcement_mode(codec.wire))

ParseIndexingMode ==
    /\ codec.kind = "_parse_indexing_mode"
    /\ codec.step = 1
    /\ Converted(codec.wire, _parse_indexing_mode(codec.wire))

NextCodec ==
    \/ FieldConstraintToDict
    \/ SearchFilterToDict
    \/ SearchQueryToDict
    \/ CollectionCreateData
    \/ FromDict
    \/ ParseDatetime
    \/ ParseSchemaEnforcementMode
    \/ ParseIndexingMode

SpecCodec == InitCodec /\ [][NextCodec]_vars

(***************************************************************************)
(* The claims                                                              *)
(***************************************************************************)

\* A request of the call failed at connection level (refused or timed out).
ConnectionLevelFault ==
    \/ resp1.fault \in {"refused", "timeout"}
    \/ resp2.fault \in {"refused", "timeout"}

\* The first _request call of the current call raised.
TransportRaised == _request(OpInfo(call.op).method, resp1).raised

\* _request returned an envelope (not None) for the first request.
GotEnvelope == resp1.fault = "none" /\ ~TransportRaised /\ ~env.isNone

\* What a method returns for "absent": None, an empty list, or False.
AbsentValue(op) ==
    CASE OpInfo(op).shape = "single" -> PyNone
      [] OpInfo(op).shape = "bool" -> PyBool("False")
      [] OTHER -> PyList(OpInfo(op).entity, 0)

\* C1: a call of an operation-group method one of whose HTTP requests failed
\* at connection level (refused, timed out) raises LatticeConnectionError,
\* the content request of Documents.read_by_id included.
C1_ConnectionFaultRaisesConnectionError ==
    (pc = "returned" /\ call.op \in GroupOps /\ ConnectionLevelFault)
        => (result.kind = "raise" /\ result.exc = "LatticeConnectionError")

\* C2: health_check never raises: whatever the network answers it returns a
\* boolean, and False when the request raised an error.
C2_HealthCheckNeverRaises ==
    (pc = "returned" /\ call.op = "health_check")
        => /\ result.kind = "return"
           /\ result.value.type = "bool"
           /\ (resp1.fault /= "none" => result.value = PyBool("False"))

\* C3: a read whose transport call returned an envelope with success false
\* returns None (single reads) or an empty list (list reads); it does not
\* raise.
C3_ReadFailureIsAbsent ==
    (pc = "returned" /\ call.op \in ReadOps /\ GotEnvelope /\ env.success = "False")
        => result = Return(AbsentValue(call.op))

C3_Witness ==
    /\ pc = "returned"
    /\ call.op = "collection.read_by_id"
    /\ resp1.status = 404
    /\ env.success = "False"
    /\ result = Return(PyNone)

\* C4: a mutation whose transport call returned an envelope with success
\* false returns False (boolean operations) or None (create, ingest,
\* rebuild_indexes), and a mutation raises only when its transport call
\* could not complete.
C4_MutationRaisesOnlyOnTransportFailure ==
    (pc = "returned" /\ call.op \in MutationOps)
        => /\ (GotEnvelope /\ env.success = "False")
                => result = Return(AbsentValue(call.op))
           /\ result.kind = "raise" => TransportRaised

C6_ExistsIffStatus200 ==
    (pc = "returned" /\ call.op \in ProbeOps /\ resp1.fault = "none")
        => /\ env.isNone = FALSE
           /\ env.success = (IF resp1.status = 200 THEN "True" ELSE "False")
           /\ env.data = NullData
           /\ result = Return(PyBool(IF resp1.status = 200 THEN "True" ELSE "False"))

C6_Witness ==
    /\ pc = "returned"
    /\ call.op = "document.exists"
    /\ resp1.fault = "none"
    /\ resp1.status = 204
    /\ result = Return(PyBool("False"))

\* C7: for a method other than HEAD, an empty body gives an envelope with
\* success = (status < 400) and no data, a body that is not JSON gives
\* success = (status < 400) and the raw text as data; _request does not raise.
C7_EmptyOrNonJsonBody ==
    (pc \in {"wait2", "returned"} /\ OpInfo(call.op).method /= "HEAD"
     /\ resp1.fault = "none" /\ resp1.body.kind \in {"empty", "nonjson"})
        => /\ env.isNone = FALSE
           /\ env.success = (IF resp1.status < 400 THEN "True" ELSE "False")
           /\ env.status_code = resp1.status
           /\ env.data.kind = (IF resp1.body.kind = "empty" THEN "null" ELSE "text")

C7_Witness ==
    /\ pc = "returned"
    /\ call.op = "collection.delete"
    /\ resp1.status = 400
    /\ resp1.body.kind = "nonjson"
    /\ env.success = "False"
    /\ env.data.kind = "text"

\* C8: a Document that Documents.read_by_id returns when called with
\* include_content carries the payload of the content request, and its
\* content is not absent, whatever other clients do between the requests.
C8_ContentIsSecondPayload ==
    (pc = "returned" /\ call.op = "document.read_by_id" /\ call.include_content
     /\ result.kind = "return" /\ result.value.type = "Document")
        => /\ resp2.fault = "none"
           /\ resp2.status = 200
           /\ result.value.content /= "None"

\* C9: every call issues exactly one HTTP request, except Documents.
\* read_by_id with include_content, which issues exactly two when the
\* metadata request succeeds with a payload; nothing is sent again.
C9_RequestsPerCall ==
    pc = "returned"
        => nreq = (IF /\ call.op = "document.read_by_id"
                      /\ call.include_content
                      /\ GotEnvelope
                      /\ env.success = "True"
                      /\ DataTruthy(env.data)
                   THEN 2 ELSE 1)

\* C10: exists(id) returns True right after a create (ingest) that returned
\* id, and False right after a delete of id that returned True, for
\* collections and for documents.
C10_ExistsAfterCreateAndDelete ==
    (pc = "returned" /\ result.kind = "return")
        => /\ (call.op = "collection.exists"
               /\ last.collection_id = call.collection_id
               /\ last.document_id = NoId)
                => /\ last.kind = "created" => result.value = PyBool("True")
                   /\ last.kind = "deleted" => result.value = PyBool("False")
           /\ (call.op = "document.exists"
               /\ last.collection_id = call.collection_id
               /\ last.document_id = call.document_id)
                => /\ last.kind = "created" => result.value = PyBool("True")
                   /\ last.kind = "deleted" => result.value = PyBool("False")

C10_Witness ==
    /\ pc = "returned"
    /\ call.op = "document.exists"
    /\ last.kind = "deleted"
    /\ last.collection_id = call.collection_id
    /\ last.document_id = call.document_id
    /\ result = Return(PyBool("False"))

\* An object was encoded: the state holds it and its wire form.
Encoded(kind) == codec.kind = kind /\ codec.obj /= VNone /\ codec.step >= 1

\* A wire object was decoded to an entity.
Decoded == codec.kind \in Entities /\ codec.step = 2

\* from_dict raised while it built an argument.
DecodeRaised(obj) == obj /= VNone /\ \E attr \in DOMAIN obj : obj[attr].t = "raise"

\* A value is one of the not-set defaults: None, "", [], {} or False.
NotSet(x) ==
    \/ x.t = "None"
    \/ x.t \in {"str", "list"} /\ Len(x.v) = 0
    \/ x.t = "dict" /\ x.k = ""
    \/ x.t = "bool" /\ x.v = <<"False">>

\* The attributes an encoder puts on the wire, each with its key.
WireForm(kind) ==
    CASE kind = "FieldConstraint" ->
            {<<"field_path", "fieldPath">>, <<"data_type", "dataType">>,
             <<"required", "required">>, <<"nullable", "nullable">>,
             <<"regex_pattern", "regexPattern">>, <<"min_value", "minValue">>,
             <<"max_value", "maxValue">>, <<"min_length", "minLength">>,
             <<"max_length", "maxLength">>, <<"allowed_values", "allowedValues">>,
             <<"array_element_type", "arrayElementType">>}
      [] kind = "SearchFilter" ->
            {<<"field", "field">>, <<"condition", "condition">>, <<"value", "value">>}
      [] OTHER ->
            {<<"filters", "filters">>, <<"labels", "labels">>, <<"tags", "tags">>,
             <<"max_results", "maxResults">>, <<"skip", "skip">>,
             <<"ordering", "ordering">>, <<"include_content", "includeContent">>}

\* The value of an attribute counts as not set for its encoder.
NotSetFor(kind, attr, x) ==
    IF kind = "FieldConstraint" /\ attr = "nullable" THEN x = VBool(TRUE) ELSE NotSet(x)

\* C11: Search.enumerate(q) issues the request (method, path, body) that
\* Search.search(q) issues and maps every answer to the result search maps
\* it to.
C11_EnumerateIsSearch ==
    (call.op = "search.enumerate" /\ pc /= "idle")
        => /\ req = FirstRequest([call EXCEPT !.op = "search.search"])
           /\ pc = "returned"
                => result = MethodResult("search.search", _request(req.method, resp1))

C11_Witness ==
    /\ pc = "returned"
    /\ call.op = "search.enumerate"
    /\ "filters" \in DOMAIN req.body
    /\ "labels" \in DOMAIN req.body
    /\ result.kind = "return"
    /\ result.value.type = "SearchResult"

\* The request of search_by_sql: a POST to the collection's search endpoint
\* whose body has the one key sqlExpression, holding the expression.
SqlRequestSent ==
    /\ req.method = "POST"
    /\ req.route = "/v1.0/collections/{id}/documents/search"
    /\ req.collection_id = call.collection_id
    /\ DOMAIN req.body = {"sqlExpression"}
    /\ req.body["sqlExpression"] = call.arg

C13_FieldConstraintRoundTrip ==
    (Encoded("FieldConstraint") /\ codec.step = 2)
        => \A w \in WireForm("FieldConstraint") : codec.back[w[1]] = codec.obj[w[1]]

AlwaysEmitted == {"fieldPath", "field", "condition"}
EmittedUnlessNone == {"value"}

NoValueForNullTest(filter) ==
    filter["condition"].v[1] \in {"IsNull", "IsNotNull"} => "value" \notin DOMAIN filter

\* C15: the encoded form of a SearchFilter whose condition is IsNull or
\* IsNotNull has no value key, whatever value the caller gave the filter,
\* on its own and inside an encoded SearchQuery.
C15_NullTestsCarryNoValue ==
    /\ Encoded("SearchFilter") => NoValueForNullTest(codec.wire)
    /\ (Encoded("SearchQuery") /\ "filters" \in DOMAIN codec.wire)
            => \A i \in 1..Len(codec.wire["filters"].v) :
                    NoValueForNullTest(codec.wire["filters"].v[i])

\* The defaults the entities document: "", [], {}, False, 0, None, the enum
\* defaults, and True for FieldConstraint.nullable.
DocumentedDefault(kind, f) ==
    CASE kind = "FieldConstraint" /\ f.attr = "nullable" -> f.dflt = VBool(TRUE)
      [] f.attr = "schema_enforcement_mode" -> f.dflt = SchemaEnforcementMode("None")
      [] f.attr = "indexing_mode" -> f.dflt = IndexingMode("All")
      [] OTHER -> NotSet(f.dflt) \/ f.dflt = VNum("0")

\* C16: decoding a wire object from which any subset of the fields is
\* missing does not raise, and each missing field takes its documented
\* default, for every entity decoder.
C16_MissingFieldsTakeDefaults ==
    Decoded
        => /\ ~DecodeRaised(codec.back)
           /\ \A f \in FieldSet(codec.kind) :
                f.key \notin DOMAIN codec.wire
                    => /\ codec.back[f.attr] = f.dflt
                       /\ DocumentedDefault(codec.kind, f)

C16_Witness ==
    /\ Decoded
    /\ codec.kind = "FieldConstraint"
    /\ DOMAIN codec.wire = {"fieldPath"}
    /\ codec.back.nullable = VBool(TRUE)
    /\ codec.back.required = VBool(FALSE)
    /\ codec.back.data_type = VNone
    /\ codec.back.id = VStr(<<>>)

\* C17: a field present on the wire with the value null decodes to the
\* default it takes when it is missing, and decoding does not raise.
C17_NullDecodesToDefault ==
    Decoded
        => /\ ~DecodeRaised(codec.back)
           /\ \A f \in FieldSet(codec.kind) :
                (f.key \in DOMAIN codec.wire /\ codec.wire[f.key].t = "None")
                    => codec.back[f.attr] = f.dflt

\* The members of the two enums, each with its name in lower case.
SchemaEnforcementModes ==
    {<<"None", <<"n", "o", "n", "e">>>>,
     <<"Strict", <<"s", "t", "r", "i", "c", "t">>>>,
     <<"Flexible", <<"f", "l", "e", "x", "i", "b", "l", "e">>>>,
     <<"Partial", <<"p", "a", "r", "t", "i", "a", "l">>>>}
IndexingModes ==
    {<<"All", <<"a", "l", "l">>>>,
     <<"Selective", <<"s", "e", "l", "e", "c", "t", "i", "v", "e">>>>,
     <<"None", <<"n", "o", "n", "e">>>>}

\* The member a wire value names in some spelling, or the default.
MemberNamed(members, default, x) ==
    IF x.t = "str" /\ \E m \in members : x.v \in Spellings(m[2])
    THEN (CHOOSE m \in members : x.v \in Spellings(m[2]))[1]
    ELSE default

\* C18: schemaEnforcementMode and indexingMode decode to the member the
\* wire string names in any upper/lower-case spelling, and to the default
\* (None, All) for every other string, null and every value that is not a
\* string, in the parsers and in Collection.from_dict.
C18_EnumsDecodeCaseInsensitively ==
    /\ (codec.kind = "_parse_schema_enforcement_mode" /\ codec.step = 2)
            => codec.back = SchemaEnforcementMode(
                                MemberNamed(SchemaEnforcementModes, "None", codec.wire))
    /\ (codec.kind = "_parse_indexing_mode" /\ codec.step = 2)
            => codec.back = IndexingMode(MemberNamed(IndexingModes, "All", codec.wire))
    /\ (codec.kind = "Collection" /\ codec.step = 2)
            => /\ codec.back.schema_enforcement_mode
                    = SchemaEnforcementMode(
                        MemberNamed(SchemaEnforcementModes, "None",
                                    Get(codec.wire, "schemaEnforcementMode", VNone)))
               /\ codec.back.indexing_mode
                    = IndexingMode(MemberNamed(IndexingModes, "All",
                                               Get(codec.wire, "indexingMode", VNone)))

C18_Witness ==
    /\ codec.kind = "_parse_schema_enforcement_mode"
    /\ codec.step = 2
    /\ codec.wire = VStr(<<"f", "L", "E", "x", "i", "b", "L", "e">>)
    /\ codec.back = SchemaEnforcementMode("Flexible")

\* The timestamp a wire value stands for: what a bare string parses to, the
\* same for an object holding that string under "utc", unset otherwise.
TimestampOf(x) ==
    CASE x.t = "str" -> _parse_datetime(x)
      [] x.t = "dict" /\ x.k = "utc" -> _parse_datetime(VStr(x.v))
      [] OTHER -> VNone

\* C19: every timestamp field of every entity decodes a bare ISO-8601 string
\* and an object holding it under "utc" to the same timestamp, and every
\* other value to unset; decoding does not raise.
C19_TimestampShapesDecodeAlike ==
    Decoded
        => /\ ~DecodeRaised(codec.back)
           /\ \A f \in FieldSet(codec.kind) :
                f.conv \in {"datetime", "timestamp"}
                    => codec.back[f.attr] = TimestampOf(Get(codec.wire, f.key, VNone))

\* C20: Collections.create with an empty name raises LatticeValidationError
\* and sends no HTTP request.
C20_EmptyNameRejectedBeforeSending ==
    (call.op = "collection.create" /\ call.arg = VStr(<<>>) /\ pc /= "idle")
        => /\ nreq = 0
           /\ result = Raise("LatticeValidationError", "")

\* The call that returned is a search or an enumerate.
SearchOrEnumerate == call.op \in {"search.search", "search.enumerate"}

\* The query's skip, 0 when unset.
SkipOf(query) == IF query.skip = VNone THEN 0 ELSE NumberOf(query.skip)

\* max(0, min(m, N - k))
PageSize(N, k, m) ==
    LET least == IF m < N - k THEN m ELSE N - k
    IN  IF least > 0 THEN least ELSE 0

\* C21: given a collection holding N documents, a search or an enumerate
\* with no filters, labels or tags and with skip = k, maxResults = m that
\* the server answers returns a SearchResult with exactly
\* max(0, min(m, N - k)) documents and total_records = N.
C21_PageOfWholeCollection ==
    [][(/\ pc = "wait1"
        /\ pc' = "returned"
        /\ SearchOrEnumerate
        /\ ~Truthy(call.arg.filters)
        /\ ~Truthy(call.arg.labels)
        /\ ~Truthy(call.arg.tags)
        /\ call.arg.skip /= VNone
        /\ call.arg.max_results /= VNone
        /\ HasCol(server, call.collection_id)
        /\ resp1'.fault = "none")
       => /\ result'.kind = "return"
          /\ result'.value.type = "SearchResult"
          /\ result'.value.n =
                PageSize(Cardinality(DocsIn(server, call.collection_id)),
                         NumberOf(call.arg.skip), NumberOf(call.arg.max_results))
          /\ result'.value.total_records =
                Cardinality(DocsIn(server, call.collection_id))]_vars

\* A page from the middle of a collection of two documents: skip = 1,
\* maxResults = 2 gives the one document left, total_records is 2.
C21_Witness ==
    /\ pc = "returned"
    /\ SearchOrEnumerate
    /\ call.arg.skip = VNum("1")
    /\ call.arg.max_results = VNum("2")
    /\ Cardinality(DocsIn(server, call.collection_id)) = 2
    /\ result.kind = "return"
    /\ result.value.type = "SearchResult"
    /\ result.value.n = 1
    /\ result.value.total_records = 2

\* C22: in every SearchResult returned by search or enumerate,
\* end_of_results is true if and only if skip + the number of returned
\* documents >= total_records (skip is the query's skip, 0 when unset).
C22_EndOfResultsIffLastPage ==
    (/\ pc = "returned"
     /\ SearchOrEnumerate
     /\ result.kind = "return"
     /\ result.value.type = "SearchResult")
    => ((result.value.end_of_results = "True")
        <=> (SkipOf(call.arg) + result.value.n >= result.value.total_records))

\* A first page that is not the last (end_of_results false), of a
\* collection of two documents.
C22_Witness ==
    /\ pc = "returned"
    /\ SearchOrEnumerate
    /\ call.arg.max_results = VNum("1")
    /\ result.kind = "return"
    /\ result.value.type = "SearchResult"
    /\ result.value.n = 1
    /\ result.value.total_records = 2
    /\ result.value.end_of_results = "False"

\* C23: the id of a Collection returned by Collections.create starts with
\* col_, and the id and schema_id of a Document returned by Documents.ingest
\* start with doc_ and sch_.
C23_CreatedIdsCarryPrefix ==
    (pc = "returned" /\ result.kind = "return")
    => /\ (call.op = "collection.create" /\ result.value.type = "Collection")
            => result.value.id.prefix = "col_"
       /\ (call.op = "document.ingest" /\ result.value.type = "Document")
            => /\ result.value.id.prefix = "doc_"
               /\ result.value.schema_id.prefix = "sch_"

\* Documents.ingest returned the second document the server stored.
C23_Witness ==
    /\ pc = "returned"
    /\ call.op = "document.ingest"
    /\ result.kind = "return"
    /\ result.value.type = "Document"
    /\ result.value.id = [prefix |-> "doc_", n |-> 2]
    /\ result.value.schema_id = SchemaId

\* C24: when Collections.rebuild_indexes is called with a progress_callback
\* and returns an IndexRebuildResult, the callback has been invoked at least
\* once.
C24_ProgressCallbackInvoked ==
    (/\ pc = "returned"
     /\ call.op = "collection.rebuild_indexes"
     /\ call.arg = VBool(TRUE)
     /\ result.kind = "return"
     /\ result.value.type = "IndexRebuildResult")
    => callbacks >= 1

\* C25: every exception that escapes _request is a LatticeException; a
\* refused connection or a timeout raises LatticeConnectionError with the
\* requests exception as its cause, any other request error raises
\* LatticeException, and no fault is turned into a returned envelope.
C25_TransportRaisesOnlyTaxonomy ==
    (pc = "returned" /\ nreq = 1 /\ call.op /= "health_check")
    => LET out == _request(req.method, resp1) IN
       /\ out.raised
            => /\ result = Raise(out.exc, out.cause)
               /\ IsLatticeException(result.exc)
       /\ resp1.fault \in {"refused", "timeout"}
            => result = Raise("LatticeConnectionError", RawException(resp1.fault))
       /\ resp1.fault = "other" => result = Raise("LatticeException", "")
       /\ resp1.fault /= "none" => result.kind = "raise"

\* The interface table: the method and the path of every operation, under
\* the /v1.0 root.
InterfaceTable(op) ==
    CASE op = "collection.create" -> <<"PUT", "/v1.0/collections">>
      [] op = "collection.read_all" -> <<"GET", "/v1.0/collections">>
      [] op = "collection.read_by_id" -> <<"GET", "/v1.0/collections/{id}">>
      [] op = "collection.exists" -> <<"HEAD", "/v1.0/collections/{id}">>
      [] op = "collection.delete" -> <<"DELETE", "/v1.0/collections/{id}">>
      [] op = "collection.get_constraints" ->
            <<"GET", "/v1.0/collections/{id}/constraints">>
      [] op = "collection.update_constraints" ->
            <<"PUT", "/v1.0/collections/{id}/constraints">>
      [] op = "collection.get_indexed_fields" ->
            <<"GET", "/v1.0/collections/{id}/indexing">>
      [] op = "collection.update_indexing" ->
            <<"PUT", "/v1.0/collections/{id}/indexing">>
      [] op = "collection.rebuild_indexes" ->
            <<"POST", "/v1.0/collections/{id}/indexes/rebuild">>
      [] op = "document.ingest" -> <<"PUT", "/v1.0/collections/{id}/documents">>
      [] op = "document.read_all_in_collection" ->
            <<"GET", "/v1.0/collections/{id}/documents">>
      [] op = "document.read_by_id" ->
            <<"GET", "/v1.0/collections/{id}/documents/{docId}">>
      [] op = "document.exists" ->
            <<"HEAD", "/v1.0/collections/{id}/documents/{docId}">>
      [] op = "document.delete" ->
            <<"DELETE", "/v1.0/collections/{id}/documents/{docId}">>
      [] op \in {"search.search", "search.search_by_sql", "search.enumerate"} ->
            <<"POST", "/v1.0/collections/{id}/documents/search">>
      [] op = "schema.read_all" -> <<"GET", "/v1.0/schemas">>
      [] op = "schema.read_by_id" -> <<"GET", "/v1.0/schemas/{id}">>
      [] op = "schema.get_elements" -> <<"GET", "/v1.0/schemas/{id}/elements">>
      [] op = "index.get_mappings" -> <<"GET", "/v1.0/tables">>
      [] op = "health_check" -> <<"GET", "/v1.0/health">>
      [] OTHER -> <<"", "">>

\* C26: every operation issues the method and the path the interface table
\* lists for it, with the caller's ids substituted (the content request of
\* Documents.read_by_id is a GET on the document's path).
C26_RequestsFollowInterfaceTable ==
    pc /= "idle"
    => /\ <<req.method, req.route>> = InterfaceTable(call.op)
       /\ req.collection_id = call.collection_id
       /\ req.document_id = call.document_id
       /\ req.via = "_request" => req.schema_id = call.schema_id

\* rebuild_indexes on the second collection: POST to its indexes/rebuild.
C26_Witness ==
    /\ pc = "wait1"
    /\ call.op = "collection.rebuild_indexes"
    /\ call.collection_id = [prefix |-> "col_", n |-> 2]
    /\ req.method = "POST"
    /\ req.route = "/v1.0/collections/{id}/indexes/rebuild"
    /\ req.collection_id = [prefix |-> "col_", n |-> 2]

\* C27: when the body of a non-HEAD response parses as a JSON object, the
\* envelope's success and status_code are the body's success and statusCode
\* (False and 0 when missing), whatever the HTTP status: a 2xx response whose
\* body lacks success is a failure.
C27_EnvelopeFromBodyOnly ==
    (/\ pc \in {"wait2", "returned"}
     /\ OpInfo(call.op).method /= "HEAD"
     /\ resp1.fault = "none"
     /\ resp1.body.kind = "object")
    => /\ env.success = (IF resp1.body.success = "missing" THEN "False"
                         ELSE resp1.body.success)
       /\ env.status_code = (IF resp1.body.code = -1 THEN 0 ELSE resp1.body.code)
       /\ (resp1.body.success = "missing" /\ call.op \in GroupOps /\ pc = "returned")
            => result = Return(AbsentValue(call.op))

\* A 200 whose JSON body has a payload and neither success nor statusCode:
\* the envelope is a failure with status_code 0 and the read returns None.
C27_Witness ==
    /\ pc = "returned"
    /\ call.op = "collection.read_by_id"
    /\ resp1.fault = "none"
    /\ resp1.status = 200
    /\ resp1.body.kind = "object"
    /\ resp1.body.success = "missing"
    /\ resp1.body.code = -1
    /\ resp1.body.data.kind = "obj"
    /\ env.success = "False"
    /\ env.status_code = 0
    /\ result = Return(PyNone)

\* The numbers that may be zero, each with its key.
ZeroableNumbers(kind) ==
    IF kind = "SearchQuery"
    THEN {<<"max_results", "maxResults">>, <<"skip", "skip">>}
    ELSE {<<"min_value", "minValue">>, <<"max_value", "maxValue">>,
          <<"min_length", "minLength">>, <<"max_length", "maxLength">>}

\* C28: SearchQuery.to_dict emits maxResults and skip, and
\* FieldConstraint.to_dict emits minValue, maxValue, minLength and
\* maxLength, whenever they are not None, the value 0 included.
C28_ZeroIsNotUnset ==
    \A kind \in {"SearchQuery", "FieldConstraint"} :
        Encoded(kind)
            => \A w \in ZeroableNumbers(kind) :
                    IF codec.obj[w[1]] = VNone
                    THEN w[2] \notin DOMAIN codec.wire
                    ELSE /\ w[2] \in DOMAIN codec.wire
                         /\ codec.wire[w[2]] = codec.obj[w[1]]

\* A FieldConstraint whose four bounds are 0: all four are on the wire.
C28_Witness ==
    /\ Encoded("FieldConstraint")
    /\ \A w \in ZeroableNumbers("FieldConstraint") :
            /\ codec.obj[w[1]] = VNum("0")
            /\ w[2] \in DOMAIN codec.wire
            /\ codec.wire[w[2]] = VNum("0")

\* The optional arguments of Collections.create, each with its key.
CreateOptionals ==
    {<<"description", "description">>, <<"documents_directory", "documentsDirectory">>,
     <<"labels", "labels">>, <<"tags", "tags">>,
     <<"field_constraints", "fieldConstraints">>,
     <<"indexed_fields", "indexedFields">>}

\* C29: the body Collections.create builds always contains name, contains
\* description, documentsDirectory, labels, tags, fieldConstraints and
\* indexedFields exactly when the argument is set and not empty, contains
\* schemaEnforcementMode exactly when the mode is not None and indexingMode
\* exactly when the mode is not All.
C29_CreateBody ==
    (codec.kind = "Collections.create" /\ codec.step = 1)
    => /\ "name" \in DOMAIN codec.wire
       /\ codec.wire["name"] = codec.obj.name
       /\ \A w \in CreateOptionals :
            w[2] \in DOMAIN codec.wire <=> ~NotSet(codec.obj[w[1]])
       /\ "schemaEnforcementMode" \in DOMAIN codec.wire
            <=> codec.obj.schema_enforcement_mode.v /= <<"None">>
       /\ "indexingMode" \in DOMAIN codec.wire
            <=> codec.obj.indexing_mode.v /= <<"All">>
       /\ DOMAIN codec.wire \subseteq
            {"name", "schemaEnforcementMode", "indexingMode"}
            \cup {w[2] : w \in CreateOptionals}

\* create("", description="x", labels=[], tags={}, schema_enforcement_mode=
\* STRICT, indexing_mode=NONE): the empty list and map are left out.
C29_Witness ==
    /\ codec.kind = "Collections.create"
    /\ codec.step = 1
    /\ codec.obj.name = VStr(<<>>)
    /\ codec.obj.labels = VList(<<>>)
    /\ codec.obj.tags = VDict("", <<>>)
    /\ codec.obj.indexing_mode = IndexingMode("None")
    /\ DOMAIN codec.wire = {"name", "description", "schemaEnforcementMode", "indexingMode"}

\* C30: no call changes the client: base_url, timeout, the session and the
\* five groups stay the ones set at construction, and every request goes
\* to that address through that session with that timeout.
C30_ClientStateUnchanged ==
    [][/\ client' = client
       /\ req' /= req
            => /\ req'.session = client.session
               /\ req'.base_url = client.base_url
               /\ req'.timeout = client.timeout]_vars

\* After a call that raised from its second request, made through the
\* session the constructor opened for an address given with a trailing
\* slash.
C30_Witness ==
    /\ pc = "returned"
    /\ result.kind = "raise"
    /\ req.via = "session.get"
    /\ req.session = client.session
    /\ req.base_url = <<"http://localhost:8000">>
    /\ client = LatticeClient(<<"http://localhost:8000", "/">>, 30)

====
